---- MODULE Spec2Model ----
(***************************************************************************)
(* OpenConverse: the per-connection session engine.                        *)
(*                                                                         *)
(*   SpecBuffer   session.AudioBuffer under concurrent producers           *)
(*                (Append / Flush / Clear, each under ab.mu)               *)
(*   SpecManager  session.Manager: the registry under sm.mu, with the      *)
(*                sessions' own goroutines closing them concurrently       *)
(*   SpecQueue    one browser-mode ClientSession with all its goroutines:  *)
(*                Start, the read loop, the write pump, the AI proxy's     *)
(*                receive goroutine and callbacks, Close from every side   *)
(*   SpecTurn     the same session with the read loop and the callers of   *)
(*                Close only, over whole turns of audio and end_turn       *)
(*   SpecCodec    the G.711 mu-law codec: decodeMuLawByte over all bytes,  *)
(*                PcmToMuLawByte and its round trip over all samples       *)
(*   SpecTwilio   one telephony-mode ClientSession with all its            *)
(*                goroutines: start, media, stop and the audio callback    *)
(*   SpecLive     a session of either kind under weak fairness of its own  *)
(*                goroutines, for what must eventually happen              *)
(*   SpecCleanup  the Manager with its cleanup routine, under fairness     *)
(*   SpecRace     the cleanup scan beside the read loops, with cs.mu       *)
(*   SpecLocks    one session's goroutines and the Manager's calls over    *)
(*                sm.mu, cs.mu, ab.mu and gp.mu, under fairness            *)
(*   SpecUnwind   SpecLive with the blocked reads of a torn-down session   *)
(*                returning their errors                                   *)
(*   SpecRemoval  SpecCleanup with the sessions' goroutines and their      *)
(*                handlers running on                                      *)
(*   SpecDownsample  the telephony downsampling of the AI's audio          *)
(*   SpecProxy    gemini.Proxy by itself: Setup, Close and the audio sends *)
(*   SpecActivity cs.LastActivity with the goroutines that write it        *)
(*                                                                         *)
(* Every specification shares the one set of variables; the variables a    *)
(* specification does not drive are held at their initial value.           *)
(***************************************************************************)
EXTENDS Integers, Sequences, FiniteSets, TLC

(***************************************************************************)
(* Bounds of the model                                                     *)
(***************************************************************************)

\* AudioBuffer.maxSize (config.MaxBufferSize, externally configured), in bytes.
maxSize == 3

\* Number of Append calls the producers make between two Flush/Clear calls.
MaxAppends == 3

\* The byte values audio is drawn from.
Byte == {0, 1}

\* The audio chunks the producers hand to Append: the empty chunk, one-byte
\* chunks and two-byte chunks whose bytes differ (so that order is visible).
Chunks == {<<>>, <<0>>, <<1>>, <<0, 1>>}

\* Goroutines that call the buffer concurrently.
Producers == {"p1", "p2"}

NoOwner == "none"

\* config.MaxSessions: the cap on registered sessions.
MaxSessions == 2

\* The ids uuid.New() hands out in one run, in this order (none repeats).
Ids == {1, 2, 3}

\* Capacity of cs.writeChan. The source's writeBufferSize is 256
\* (part_001:23); the model runs the same code with a small queue.
writeBufferSize == 2

\* Inputs one session takes from outside: frames the client sends and
\* messages the AI service delivers to the proxy's receive goroutine.
MaxEvents == 1

\* Frames the client sends on one connection when only the read loop and
\* the callers of Close are scheduled (SpecTurn).
MaxFrames == 3

\* The goroutines of one session: the connection handler (it runs Start and
\* waits), the read loop, the write pump, the AI proxy's receive goroutine,
\* and the Manager (RemoveSession, cleanup scan, Shutdown) calling Close.
Procs == {"handler", "reader", "writer", "ai", "manager"}

\* config.SessionTimeout, in clock ticks.
SessionTimeout == 1

\* The clock stops here.
MaxTime == 2

(***************************************************************************)
(* State                                                                   *)
(***************************************************************************)
VARIABLES
    \* ---- AudioBuffer (part_002:12-17)
    chunks,       \* ab.chunks: sequence of byte sequences
    totalSize,    \* ab.totalSize
    abMu,         \* ab.mu: the goroutine holding it, or NoOwner
    \* ---- goroutines calling the buffer (SpecBuffer)
    pcB,          \* pcB[p]: where producer p is inside Append/Flush/Clear
    argB,         \* argB[p]: the chunk p passed to Append
    newSizeB,     \* newSizeB[p]: Append's local newSize
    \* ---- observations (what the callers saw; not program state)
    logB,         \* Append calls returned since the last Flush/Clear: [chunk, err]
    flushed,      \* what the last Flush returned, and what was accepted before it
    \* ---- Manager (manager.go:19-25) and the sessions it created
    sessions,     \* sm.sessions: the registered ids
    nextId,       \* the next fresh uuid
    mgr,          \* the Manager call holding sm.mu, and where it is
    closed,       \* closed[id]: cs.closed
    teardowns,    \* teardowns[id]: how often Close's teardown body has run
    LastActivity, \* LastActivity[id] of the registered session id
    selfPc,       \* selfPc[id]: the session's own goroutines (read loop, AI callbacks)
    hPc,          \* hPc[id]: the connection handler that created the session
    now,          \* time.Now()
    \* ---- observations
    ev,           \* the Manager call that returned in the last step, if one did
    \* ---- one ClientSession (part_001:28-46), its connection and its AI proxy
    cs,           \* closed, writeChan, CloseChan, ClientConn, GeminiProxy, ctx
    pc,           \* pc[g]: where goroutine g of the session is
    loc,          \* the goroutines' local variables
    obs           \* observations: the last message on the wire, which pass
                  \* of the pump wrote it and how many went before it; the
                  \* messages enqueued and whether one was dropped; the
                  \* chunks accepted since the last flush, the bytes they
                  \* made when flushed and the calls the AI service got
                  \* since the last frame was read; how often
                  \* each teardown step ran; whether a goroutine panicked
    ,
    \* ---- the mu-law codec (part_001:577-657)
    codec         \* the sample or byte handed to the codec and what it returned
    ,
    \* ---- the cleanup routine (manager.go:178-190, main.go:30-31)
    routine       \* where StartCleanupRoutine is, and whether its ctx is cancelled
    ,
    \* ---- the four locks of one session and the goroutines that take them
    lk            \* sm.mu, cs.mu, ab.mu, gp.mu: their holders, and each goroutine's place
    ,
    \* ---- the Proxy by itself (proxy.go:19-33)
    gp            \* session, closed, mu, and the Setup, Close and send calls under way
    ,
    \* ---- cs.LastActivity and what writes it (part_001:73, 247-262, 322-326, 429-432)
    act           \* the clock, LastActivity, cs.mu's holder, the queue, and the goroutines that stamp

bufVars == <<chunks, totalSize, abMu, pcB, argB, newSizeB, logB, flushed>>

mgrVars == <<sessions, nextId, mgr, closed, teardowns, LastActivity,
             selfPc, hPc, now, ev>>

sessVars == <<cs, pc, loc, obs>>

vars == <<bufVars, mgrVars, sessVars, codec, routine, lk, gp, act>>

(***************************************************************************)
(* ClientSession: construction                                             *)
(***************************************************************************)

\* The codec is stateless; nothing has been handed to it.
CodecIdle == codec = [stage |-> "idle"]

\* The cleanup routine has not been started.
RoutineOff == routine = [pc |-> "off", cancelled |-> FALSE]

\* The goroutines that take the locks of one session: the connection
\* handler, the cleanup scan, Shutdown, the read loop, the write pump and
\* the AI proxy's receive goroutine with its callbacks.
LockProcs == {"handler", "cleanup", "shutdown", "reader", "writer", "ai"}

\* Frames the read loop reads, messages the AI service delivers and ticks
\* of the cleanup routine, each, in one run of the locks' model.
MaxLockEvents == 1

\* A sync.Mutex nobody holds; a sync.RWMutex nobody holds.
FreeMutex == "none"
FreeRWMutex == [w |-> "none", r |-> {}]

\* A registered, started session: the handler waits on CloseChan, the read
\* loop in ReadMessage, the pump in its select, the receive goroutine at the
\* top of its loop; no cleanup tick and no Shutdown is under way.
LockStart ==
    [sm |-> FreeMutex, cs |-> FreeRWMutex, ab |-> FreeMutex, gp |-> FreeRWMutex,
     pc |-> [p \in LockProcs |->
               CASE p = "handler" -> "wait"
                 [] p = "reader" -> "read"
                 [] p = "writer" -> "select"
                 [] p = "ai" -> "recv_top"
                 [] OTHER -> "idle"],
     after |-> [p \in {"reader", "ai"} |-> "none"],
     errIsClose |-> FALSE,
     frames |-> 0, contents |-> 0, ticks |-> 0,
     registered |-> TRUE, closed |-> FALSE, chanClosed |-> FALSE,
     gpClosed |-> FALSE, connClosed |-> FALSE, panicked |-> FALSE]

LocksIdle == lk = LockStart

\* The Proxy NewProxy returns: no session, not closed, and no call of
\* Setup, Close or a send under way.
NoSend == [pc |-> "idle", op |-> "none", empty |-> FALSE, afterClose |-> FALSE,
           reached |-> <<>>, audioErr |-> FALSE, ret |-> "none"]
ProxyStart == [session |-> "nil", sessionClosed |-> FALSE, closed |-> FALSE,
               mu |-> "free", setupPc |-> "idle", closePc |-> "idle",
               sender |-> NoSend, calls |-> 0]
ProxyIdle == gp = ProxyStart

\* The goroutines that write cs.LastActivity: the read loop, and the AI
\* receive goroutine through queueMessage.
Stampers == {"reader", "ai"}

\* NewClientSession: LastActivity: time.Now(), an empty queue, closed
\* false; no goroutine runs yet.
ActStart == [now |-> 0, LastActivity |-> 0, mu |-> "free", queued |-> 0,
             closed |-> FALSE, chanClosed |-> FALSE, panicked |-> FALSE,
             pc |-> [g \in Stampers |-> "top"],
             out |-> [g \in Stampers |-> "none"],
             events |-> 0]
ActIdle == act = ActStart

\* The steps of Close's teardown body, in the order of the source.
TeardownSteps ==
    <<"td_cancel", "td_writeChan", "td_CloseChan", "td_clear", "td_proxy", "td_conn">>

TeardownPcs == {TeardownSteps[i] : i \in 1..Len(TeardownSteps)}

NoMsg == [seq |-> 0, kind |-> "none"]

NoFrame == [k |-> "none", chunk |-> <<>>]

\* The read loop has called AudioBuffer.Append for no frame yet.
NoAppend == [k |-> "none", full |-> FALSE]

\* NewClientSession: nothing closed, an empty queue of capacity
\* writeBufferSize, an empty AudioBuffer; no goroutine started yet. The
\* Manager may close the session from the moment it is registered.
SessInitFor(isTwilio) ==
    /\ cs = [closed |-> FALSE, writeChan |-> <<>>, writeChanClosed |-> FALSE,
             CloseChanClosed |-> FALSE, connClosed |-> FALSE,
             proxyClosed |-> FALSE, cancelled |-> FALSE,
             IsTwilio |-> isTwilio, StreamSid |-> ""]
    /\ pc = [g \in Procs |->
               CASE g = "handler" -> "start"
                 [] g = "manager" -> "close"
                 [] OTHER -> "off"]
    /\ loc = [msg |-> [g \in Procs |-> "none"], inhand |-> NoMsg, drainLeft |-> 0,
              frame |-> NoFrame, audioData |-> <<>>, errIsClose |-> FALSE,
              streamSid |-> ""]
    /\ obs = [lastWritten |-> NoMsg, lastVia |-> "none", nWritten |-> 0,
              seq |-> 0, dropped |-> FALSE, events |-> 0,
              accepted |-> <<>>, turnData |-> <<>>, aiLog |-> <<>>,
              lastAppend |-> NoAppend,
              ran |-> [i \in 1..Len(TeardownSteps) |-> 0], panicked |-> FALSE,
              started |-> FALSE, lastStart |-> ""]

\* A browser session (IsTwilio is false).
SessInit == SessInitFor(FALSE)

(***************************************************************************)
(* Pure helpers                                                            *)
(***************************************************************************)

RECURSIVE Concat(_)
\* Flush's loop: result = append(result, chunk...) for each chunk in order.
Concat(cl) ==
    IF cl = <<>> THEN <<>> ELSE Head(cl) \o Concat(Tail(cl))

RECURSIVE SumLen(_)
SumLen(cl) ==
    IF cl = <<>> THEN 0 ELSE Len(Head(cl)) + SumLen(Tail(cl))

RECURSIVE AcceptedOf(_)
\* The chunks of the log entries whose Append returned nil, in call order.
AcceptedOf(log) ==
    IF log = <<>> THEN <<>>
    ELSE IF Head(log).err = "nil"
         THEN <<Head(log).chunk>> \o AcceptedOf(Tail(log))
         ELSE AcceptedOf(Tail(log))

AnyRejected(log) == \E i \in 1..Len(log) : log[i].err = "ErrBufferFull"

RECURSIVE ChunksOf(_)
ChunksOf(log) ==
    IF log = <<>> THEN <<>> ELSE <<Head(log).chunk>> \o ChunksOf(Tail(log))

(***************************************************************************)
(* AudioBuffer                                                             *)
(***************************************************************************)

\* ab.mu.Lock() succeeds only when nobody holds the mutex.
MuFreeUnlocked(p) == TRUE
MuFree(p) == abMu = NoOwner

\* newSize := ab.totalSize + len(chunk)
NewSizeNoAdd(total, chunk) == total
NewSize(total, chunk) == total + Len(chunk)

\* if newSize > ab.maxSize { return ErrBufferFull }
BufferFullOffByOne(newSize) == newSize >= maxSize
BufferFullNever(newSize) == FALSE
BufferFull(newSize) == newSize > maxSize

\* ab.chunks = append(ab.chunks, chunk)
AppendChunkFront(cl, chunk) == <<chunk>> \o cl
AppendChunk(cl, chunk) == Append(cl, chunk)

\* Flush's result for a non-empty chunk list.
FlushResultLastOnly(cl) == cl[Len(cl)]
FlushResult(cl) == Concat(cl)

BufInit ==
    /\ chunks = <<>>
    /\ totalSize = 0
    /\ abMu = NoOwner

BufIdle ==
    /\ pcB = [p \in Producers |-> "idle"]
    /\ argB = [p \in Producers |-> <<>>]
    /\ newSizeB = [p \in Producers |-> 0]
    /\ logB = <<>>
    /\ flushed = [isNil |-> TRUE, data |-> <<>>, expect |-> <<>>, rejected |-> FALSE]

\* Append: ab.mu.Lock()
AppendLock(p, chunk) ==
    /\ pcB[p] = "idle"
    /\ Len(logB) + Cardinality({q \in Producers : pcB[q] \in {"append", "store"}}) < MaxAppends
    /\ MuFree(p)
    /\ abMu' = p
    /\ pcB' = [pcB EXCEPT ![p] = "append"]
    /\ argB' = [argB EXCEPT ![p] = chunk]
    /\ UNCHANGED <<chunks, totalSize, newSizeB, logB, flushed>>

\* Append: newSize computed and compared with maxSize; the rejecting branch
\* returns ErrBufferFull (the deferred Unlock runs).
AppendCheck(p) ==
    /\ pcB[p] = "append"
    /\ IF BufferFull(NewSize(totalSize, argB[p]))
       THEN /\ logB' = Append(logB, [chunk |-> argB[p], err |-> "ErrBufferFull", by |-> p])
            /\ pcB' = [pcB EXCEPT ![p] = "idle"]
            /\ argB' = [argB EXCEPT ![p] = <<>>]
            /\ abMu' = IF abMu = p THEN NoOwner ELSE abMu
            /\ UNCHANGED newSizeB
       ELSE /\ newSizeB' = [newSizeB EXCEPT ![p] = NewSize(totalSize, argB[p])]
            /\ pcB' = [pcB EXCEPT ![p] = "store"]
            /\ UNCHANGED <<logB, abMu, argB>>
    /\ UNCHANGED <<chunks, totalSize, flushed>>

\* Append: the chunk is stored, the total updated, nil returned.
AppendStore(p) ==
    /\ pcB[p] = "store"
    /\ chunks' = AppendChunk(chunks, argB[p])
    /\ totalSize' = newSizeB[p]
    /\ logB' = Append(logB, [chunk |-> argB[p], err |-> "nil", by |-> p])
    /\ pcB' = [pcB EXCEPT ![p] = "idle"]
    /\ argB' = [argB EXCEPT ![p] = <<>>]
    /\ newSizeB' = [newSizeB EXCEPT ![p] = 0]
    /\ abMu' = IF abMu = p THEN NoOwner ELSE abMu
    /\ UNCHANGED flushed

\* Flush: ab.mu.Lock()
FlushLock(p) ==
    /\ pcB[p] = "idle"
    /\ MuFree(p)
    /\ abMu' = p
    /\ pcB' = [pcB EXCEPT ![p] = "flush"]
    /\ UNCHANGED <<chunks, totalSize, argB, newSizeB, logB, flushed>>

\* Flush: nil for no chunks; otherwise the concatenation, and the buffer reset.
FlushBody(p) ==
    /\ pcB[p] = "flush"
    /\ IF Len(chunks) = 0
       THEN /\ flushed' = [isNil |-> TRUE, data |-> <<>>,
                           expect |-> Concat(AcceptedOf(logB)),
                           rejected |-> AnyRejected(logB)]
            /\ UNCHANGED <<chunks, totalSize>>
       ELSE /\ flushed' = [isNil |-> FALSE,
                           data |-> FlushResult(chunks),
                           expect |-> Concat(AcceptedOf(logB)),
                           rejected |-> AnyRejected(logB)]
            /\ chunks' = <<>>
            /\ totalSize' = 0
    /\ logB' = <<>>
    /\ pcB' = [pcB EXCEPT ![p] = "idle"]
    /\ abMu' = IF abMu = p THEN NoOwner ELSE abMu
    /\ UNCHANGED <<argB, newSizeB>>

\* Clear: ab.mu.Lock()
ClearLock(p) ==
    /\ pcB[p] = "idle"
    /\ MuFree(p)
    /\ abMu' = p
    /\ pcB' = [pcB EXCEPT ![p] = "clear"]
    /\ UNCHANGED <<chunks, totalSize, argB, newSizeB, logB, flushed>>

\* Clear: the buffer reset, nothing returned.
ClearBody(p) ==
    /\ pcB[p] = "clear"
    /\ chunks' = <<>>
    /\ totalSize' = 0
    /\ logB' = <<>>
    /\ pcB' = [pcB EXCEPT ![p] = "idle"]
    /\ abMu' = IF abMu = p THEN NoOwner ELSE abMu
    /\ UNCHANGED <<argB, newSizeB, flushed>>

\* Size / IsEmpty / ChunkCount: point-in-time reads under the mutex.
Size == totalSize
IsEmpty == Len(chunks) = 0
ChunkCount == Len(chunks)

(***************************************************************************)
(* Manager                                                                 *)
(***************************************************************************)

MgrIdle ==
    [op |-> "idle", id |-> 0, phase |-> "scan", now |-> 0, todo |-> {},
     seen |-> {}, removed |-> {}, closedBy |-> {}]

\* The map f with key k set to v, and with key k deleted.
With(f, k, v) == [i \in DOMAIN f \cup {k} |-> IF i = k THEN v ELSE f[i]]
Without(f, k) == [i \in DOMAIN f \ {k} |-> f[i]]

\* ev when the last step returned from no Manager call.
NoEvent == [op |-> "none", id |-> 0, err |-> "none"]

\* NewManager: an empty registry; no session exists yet.
MgrInit ==
    /\ sessions = {}
    /\ nextId = 1
    /\ mgr = MgrIdle
    /\ closed = [i \in Ids |-> FALSE]
    /\ teardowns = [i \in Ids |-> 0]
    /\ LastActivity = [i \in {} |-> 0]
    /\ selfPc = [i \in Ids |-> "none"]
    /\ hPc = [i \in Ids |-> "none"]
    /\ now = 0
    /\ ev = NoEvent

\* if len(sm.sessions) >= sm.config.MaxSessions
AtCapacityOffByOne(n) == n > MaxSessions
AtCapacity(n) == n >= MaxSessions

\* now.Sub(session.LastActivity) > sm.config.SessionTimeout
ExpiredNever(t, la) == FALSE
ExpiredInclusive(t, la) == t - la >= SessionTimeout
Expired(t, la) == t - la > SessionTimeout

\* Whether a range closes the session it visits: Shutdown closes every
\* session, the cleanup scan the expired ones.
ScanHitExpiredOnly(op, t, la) == Expired(t, la)
ScanHit(op, t, la) == op = "shutdown" \/ Expired(t, la)

\* Close's check-and-set under cs.mu: TRUE when this caller is the one that
\* must run the teardown body.
WinsCloseAlways(id) == TRUE
WinsClose(id) == ~closed[id]

\* CreateSession / CreateTwilioSession, under sm.mu from entry to return:
\* the cap check, a fresh id, the session constructor (which fails when the
\* AI proxy cannot be created or set up), storeSession. The two differ in
\* the constructor they call (IsTwilio), which the Manager never reads again.
Create(twilio, proxyOk) ==
    /\ mgr.op = "idle"
    /\ nextId \in Ids
    /\ IF AtCapacity(Cardinality(sessions))
       THEN /\ ev' = [op |-> IF twilio THEN "createTwilio" ELSE "create", id |-> 0, err |-> "maximum sessions reached"]
            /\ UNCHANGED <<sessions, nextId, LastActivity, hPc>>
       ELSE IF ~proxyOk
       THEN /\ ev' = [op |-> IF twilio THEN "createTwilio" ELSE "create", id |-> 0, err |-> "proxy"]
            /\ UNCHANGED <<sessions, nextId, LastActivity, hPc>>
       ELSE /\ sessions' = sessions \cup {nextId}
            /\ LastActivity' = With(LastActivity, nextId, now)
            /\ hPc' = [hPc EXCEPT ![nextId] = "created"]
            /\ ev' = [op |-> IF twilio THEN "createTwilio" ELSE "create", id |-> nextId, err |-> "nil"]
            /\ nextId' = nextId + 1
    /\ UNCHANGED <<mgr, closed, teardowns, selfPc, now>>

CreateSession(proxyOk) == Create(FALSE, proxyOk)

CreateTwilioSession(proxyOk) == Create(TRUE, proxyOk)

\* Start / StartTwilio, called by the handler: the session's goroutines run.
Start(id) ==
    /\ hPc[id] = "created"
    /\ hPc' = [hPc EXCEPT ![id] = "waiting"]
    /\ selfPc' = [selfPc EXCEPT ![id] = "run"]
    /\ UNCHANGED <<sessions, nextId, mgr, closed, teardowns, LastActivity,
                   now>>
    /\ ev' = NoEvent

\* The read loop reads a frame (the connection is still open) and stamps
\* LastActivity.
Touch(id) ==
    /\ selfPc[id] = "run"
    /\ teardowns[id] = 0
    /\ id \in sessions
    /\ LastActivity[id] # now
    /\ LastActivity' = [LastActivity EXCEPT ![id] = now]
    /\ UNCHANGED <<sessions, nextId, mgr, closed, teardowns, selfPc, hPc,
                   now>>
    /\ ev' = NoEvent

\* The session closes itself (read loop exit, AI error callback): Close's
\* check-and-set of cs.closed.
SelfCloseEnter(id) ==
    /\ selfPc[id] = "run"
    /\ IF WinsClose(id)
       THEN /\ closed' = [closed EXCEPT ![id] = TRUE]
            /\ selfPc' = [selfPc EXCEPT ![id] = "teardown"]
       ELSE /\ selfPc' = [selfPc EXCEPT ![id] = "exited"]
            /\ UNCHANGED closed
    /\ UNCHANGED <<sessions, nextId, mgr, teardowns, LastActivity, hPc,
                   now>>
    /\ ev' = NoEvent

\* ... and the teardown body of the Close that won (cancel, close(writeChan),
\* close(CloseChan), buffer clear, proxy close, connection close).
SelfTeardown(id) ==
    /\ selfPc[id] = "teardown"
    /\ teardowns' = [teardowns EXCEPT ![id] = @ + 1]
    /\ selfPc' = [selfPc EXCEPT ![id] = "exited"]
    /\ UNCHANGED <<sessions, nextId, mgr, closed, LastActivity, hPc,
                   now>>
    /\ ev' = NoEvent

\* <-clientSession.CloseChan in the handler: readable once the teardown ran.
CloseChanClosedNever(id) == FALSE
CloseChanClosed(id) == teardowns[id] > 0

\* RemoveSession: sm.mu taken, the lookup, and (for a registered id) the
\* check-and-set of session.Close(). An absent id returns nil at once.
\* Called by the session's handler once CloseChan is closed, or by any other
\* user of the Manager with any id.
RemoveSessionEnter(id, byHandler) ==
    /\ mgr.op = "idle"
    /\ IF byHandler THEN hPc[id] = "waiting" /\ CloseChanClosed(id) ELSE TRUE
    /\ IF id \notin sessions
       THEN /\ ev' = [op |-> "removeAbsent", id |-> id, err |-> "nil"]
            /\ hPc' = IF byHandler THEN [hPc EXCEPT ![id] = "done"] ELSE hPc
            /\ UNCHANGED <<mgr, closed>>
       ELSE /\ mgr' = [MgrIdle EXCEPT !.op = "remove", !.id = id,
                          !.phase = IF WinsClose(id) THEN "teardown" ELSE "delete",
                          !.todo = IF byHandler THEN {id} ELSE {}]
            /\ closed' = [closed EXCEPT ![id] = TRUE]
            /\ ev' = NoEvent
            /\ UNCHANGED hPc
    /\ UNCHANGED <<sessions, nextId, teardowns, LastActivity, selfPc, now>>

\* RemoveSession: the rest of session.Close() when this call won the
\* check-and-set, delete(sm.sessions, id), return nil.
RemoveSessionFinish ==
    /\ mgr.op = "remove"
    /\ teardowns' = IF mgr.phase = "teardown"
                    THEN [teardowns EXCEPT ![mgr.id] = @ + 1] ELSE teardowns
    /\ sessions' = sessions \ {mgr.id}
    /\ LastActivity' = Without(LastActivity, mgr.id)
    /\ ev' = [op |-> "remove", id |-> mgr.id, err |-> "nil"]
    /\ hPc' = IF mgr.todo = {mgr.id} THEN [hPc EXCEPT ![mgr.id] = "done"] ELSE hPc
    /\ mgr' = MgrIdle
    /\ UNCHANGED <<nextId, closed, selfPc, now>>

\* CleanupInactiveSessions: sm.mu taken, now := time.Now(), the range over
\* sm.sessions begins.
CleanupBegin ==
    /\ mgr.op = "idle"
    /\ mgr' = [MgrIdle EXCEPT !.op = "cleanup", !.now = now, !.todo = sessions]
    /\ UNCHANGED <<sessions, nextId, closed, teardowns, LastActivity,
                   selfPc, hPc, now>>
    /\ ev' = NoEvent

\* Shutdown: sm.mu taken, the range over sm.sessions begins.
ShutdownBegin ==
    /\ mgr.op = "idle"
    /\ mgr' = [MgrIdle EXCEPT !.op = "shutdown", !.now = now, !.todo = sessions]
    /\ UNCHANGED <<sessions, nextId, closed, teardowns, LastActivity,
                   selfPc, hPc, now>>
    /\ ev' = NoEvent

\* One iteration of either range (Go visits the map in any order): the
\* cleanup scan reads session.LastActivity and skips a session that is not
\* expired; otherwise session.Close()'s check-and-set. A Close that lost
\* returns at once and the entry is deleted in the same iteration.
ScanVisit(id) ==
    /\ mgr.op \in {"cleanup", "shutdown"}
    /\ mgr.phase = "scan"
    /\ id \in mgr.todo
    /\ LET la == LastActivity[id]
           hit == ScanHit(mgr.op, mgr.now, la)
           saw == mgr.seen \cup {<<id, la>>}
       IN IF ~hit
          THEN /\ mgr' = [mgr EXCEPT !.todo = @ \ {id}, !.seen = saw]
               /\ UNCHANGED <<closed, sessions, LastActivity>>
          ELSE IF WinsClose(id)
          THEN /\ mgr' = [mgr EXCEPT !.phase = "teardown", !.id = id, !.seen = saw,
                                     !.closedBy = @ \cup {id}]
               /\ closed' = [closed EXCEPT ![id] = TRUE]
               /\ UNCHANGED <<sessions, LastActivity>>
          ELSE /\ mgr' = [mgr EXCEPT !.todo = @ \ {id}, !.seen = saw,
                                     !.closedBy = @ \cup {id},
                                     !.removed = @ \cup {id}]
               /\ sessions' = sessions \ {id}
               /\ LastActivity' = Without(LastActivity, id)
               /\ UNCHANGED closed
    /\ UNCHANGED <<nextId, teardowns, selfPc, hPc, now>>
    /\ ev' = NoEvent

\* The teardown body of the Close the range won, then delete(sm.sessions, id).
ScanTeardown ==
    /\ mgr.op \in {"cleanup", "shutdown"}
    /\ mgr.phase = "teardown"
    /\ teardowns' = [teardowns EXCEPT ![mgr.id] = @ + 1]
    /\ sessions' = sessions \ {mgr.id}
    /\ LastActivity' = Without(LastActivity, mgr.id)
    /\ mgr' = [mgr EXCEPT !.phase = "scan", !.id = 0, !.todo = @ \ {mgr.id},
                          !.removed = @ \cup {mgr.id}]
    /\ UNCHANGED <<nextId, closed, selfPc, hPc, now>>
    /\ ev' = NoEvent

\* The range is over: the deferred sm.mu.Unlock().
ScanEnd ==
    /\ mgr.op \in {"cleanup", "shutdown"}
    /\ mgr.phase = "scan"
    /\ mgr.todo = {}
    /\ mgr' = MgrIdle
    /\ UNCHANGED <<sessions, nextId, closed, teardowns, LastActivity,
                   selfPc, hPc, now>>
    /\ ev' = NoEvent

\* The clock advances.
Tick ==
    /\ now < MaxTime
    /\ now' = now + 1
    /\ UNCHANGED <<sessions, nextId, mgr, closed, teardowns, LastActivity,
                   selfPc, hPc>>
    /\ ev' = NoEvent

InitManager ==
    /\ CodecIdle
    /\ RoutineOff
    /\ LocksIdle
    /\ ProxyIdle
    /\ ActIdle
    /\ MgrInit
    /\ BufInit
    /\ BufIdle
    /\ SessInit

NextManager ==
    \/ \E ok \in BOOLEAN : CreateSession(ok) /\ UNCHANGED <<bufVars, sessVars, codec, routine, lk, gp, act>>
    \/ \E ok \in BOOLEAN : CreateTwilioSession(ok) /\ UNCHANGED <<bufVars, sessVars, codec, routine, lk, gp, act>>
    \/ \E id \in Ids : Start(id) /\ UNCHANGED <<bufVars, sessVars, codec, routine, lk, gp, act>>
    \/ \E id \in Ids : Touch(id) /\ UNCHANGED <<bufVars, sessVars, codec, routine, lk, gp, act>>
    \/ \E id \in Ids : SelfCloseEnter(id) /\ UNCHANGED <<bufVars, sessVars, codec, routine, lk, gp, act>>
    \/ \E id \in Ids : SelfTeardown(id) /\ UNCHANGED <<bufVars, sessVars, codec, routine, lk, gp, act>>
    \/ \E id \in Ids, h \in BOOLEAN : RemoveSessionEnter(id, h) /\ UNCHANGED <<bufVars, sessVars, codec, routine, lk, gp, act>>
    \/ RemoveSessionFinish /\ UNCHANGED <<bufVars, sessVars, codec, routine, lk, gp, act>>
    \/ CleanupBegin /\ UNCHANGED <<bufVars, sessVars, codec, routine, lk, gp, act>>
    \/ ShutdownBegin /\ UNCHANGED <<bufVars, sessVars, codec, routine, lk, gp, act>>
    \/ \E id \in Ids : ScanVisit(id) /\ UNCHANGED <<bufVars, sessVars, codec, routine, lk, gp, act>>
    \/ ScanTeardown /\ UNCHANGED <<bufVars, sessVars, codec, routine, lk, gp, act>>
    \/ ScanEnd /\ UNCHANGED <<bufVars, sessVars, codec, routine, lk, gp, act>>
    \/ Tick /\ UNCHANGED <<bufVars, sessVars, codec, routine, lk, gp, act>>

SpecManager == InitManager /\ [][NextManager]_vars

\* ---- StartCleanupRoutine (manager.go:178-190), started by main with a
\* cancellable context (main.go:30-31)

\* go sessionManager.StartCleanupRoutine(ctx): the routine waits in its
\* select.
RoutineStarted == routine = [pc |-> "select", cancelled |-> FALSE]

\* case <-ticker.C: the ticker fired and the select took it; the routine
\* calls CleanupInactiveSessions and waits for sm.mu.
RoutineTick ==
    /\ routine.pc = "select"
    /\ routine' = [routine EXCEPT !.pc = "lock"]
    /\ UNCHANGED mgrVars

\* CleanupInactiveSessions takes sm.mu.
RoutineLock ==
    /\ routine.pc = "lock"
    /\ CleanupBegin
    /\ routine' = [routine EXCEPT !.pc = "scan"]

\* CleanupInactiveSessions returns; the routine is back in its select.
RoutineReturn ==
    /\ routine.pc = "scan"
    /\ mgr.op = "cleanup"
    /\ ScanEnd
    /\ routine' = [routine EXCEPT !.pc = "select"]

\* cancel(): main cancels the routine's context on a shutdown signal.
Cancel ==
    /\ ~routine.cancelled
    /\ routine' = [routine EXCEPT !.cancelled = TRUE]
    /\ UNCHANGED mgrVars

\* case <-ctx.Done(): return
RoutineStop ==
    /\ routine.pc = "select"
    /\ routine.cancelled
    /\ routine' = [routine EXCEPT !.pc = "stopped"]
    /\ UNCHANGED mgrVars

InitCleanup ==
    /\ CodecIdle
    /\ RoutineStarted
    /\ LocksIdle
    /\ ProxyIdle
    /\ ActIdle
    /\ MgrInit
    /\ BufInit
    /\ BufIdle
    /\ SessInit

\* What goes on beside the routine while the server runs: connection
\* handlers create and start sessions and remove them once CloseChan is
\* closed, sessions stamp LastActivity and close themselves, the clock
\* advances.
ManagerCall ==
    \/ CreateSession(TRUE)
    \/ \E id \in Ids : Start(id)
    \/ \E id \in Ids : Touch(id)
    \/ \E id \in Ids : SelfCloseEnter(id)
    \/ \E id \in Ids : SelfTeardown(id)
    \/ \E id \in Ids : RemoveSessionEnter(id, TRUE)
    \/ RemoveSessionFinish
    \/ Tick

\* The steps inside a range, whoever started it.
ScanStep ==
    \/ \E id \in Ids : ScanVisit(id)
    \/ ScanTeardown

NextCleanup ==
    \/ ManagerCall /\ UNCHANGED <<bufVars, sessVars, codec, routine, lk, gp, act>>
    \/ ScanStep /\ UNCHANGED <<bufVars, sessVars, codec, routine, lk, gp, act>>
    \/ RoutineTick /\ UNCHANGED <<bufVars, sessVars, codec, lk, gp, act>>
    \/ RoutineLock /\ UNCHANGED <<bufVars, sessVars, codec, lk, gp, act>>
    \/ RoutineReturn /\ UNCHANGED <<bufVars, sessVars, codec, lk, gp, act>>
    \/ Cancel /\ UNCHANGED <<bufVars, sessVars, codec, lk, gp, act>>
    \/ RoutineStop /\ UNCHANGED <<bufVars, sessVars, codec, lk, gp, act>>

\* The ticker fires every minute while the routine waits for it; sm.mu is
\* handed to a goroutine that keeps waiting for it (sync.Mutex starvation
\* mode) and every holder releases it; a call that holds sm.mu runs on; a
\* select whose ctx.Done() case is ready again and again takes it at last
\* (Go picks among ready cases at random).
SpecCleanup ==
    /\ InitCleanup
    /\ [][NextCleanup]_vars
    /\ WF_vars(RoutineTick /\ UNCHANGED <<bufVars, sessVars, codec, lk, gp, act>>)
    /\ SF_vars(RoutineLock /\ UNCHANGED <<bufVars, sessVars, codec, lk, gp, act>>)
    /\ WF_vars(ScanStep /\ UNCHANGED <<bufVars, sessVars, codec, routine, lk, gp, act>>)
    /\ WF_vars(RoutineReturn /\ UNCHANGED <<bufVars, sessVars, codec, lk, gp, act>>)
    /\ WF_vars(RemoveSessionFinish /\ UNCHANGED <<bufVars, sessVars, codec, routine, lk, gp, act>>)
    /\ SF_vars(RoutineStop /\ UNCHANGED <<bufVars, sessVars, codec, lk, gp, act>>)

\* ---- The cleanup scan against the read loop, with cs.mu in view
\* (manager.go:159-175, part_001:322-326, 429-432, 271-278)

\* The read loop has read a frame: cs.mu.Lock().
TouchLock(id) ==
    /\ selfPc[id] = "run"
    /\ teardowns[id] = 0
    /\ id \in sessions
    /\ LastActivity[id] # now
    /\ selfPc' = [selfPc EXCEPT ![id] = "touch"]
    /\ UNCHANGED <<sessions, nextId, mgr, closed, teardowns, LastActivity, hPc, now>>
    /\ ev' = NoEvent

\* cs.LastActivity = time.Now(); cs.mu.Unlock(). The session outlives its
\* registry entry, which is all the model keeps LastActivity for.
TouchStore(id) ==
    /\ selfPc[id] = "touch"
    /\ LastActivity' = IF id \in sessions
                       THEN [LastActivity EXCEPT ![id] = now] ELSE LastActivity
    /\ selfPc' = [selfPc EXCEPT ![id] = "run"]
    /\ UNCHANGED <<sessions, nextId, mgr, closed, teardowns, hPc, now>>
    /\ ev' = NoEvent

\* Whether cs.mu of session id is free: the read loop holds it between
\* Lock and Unlock; every other holder takes and releases it in one step.
SessionMuFree(id) == selfPc[id] # "touch"

\* One iteration of the cleanup scan, up to the age test: the scan reads
\* session.LastActivity as a plain field and takes no lock of the session.
\* Sub compares the monotonic readings, one word each, so the scan sees the
\* value before or after a concurrent store.
ScanRead(id) ==
    /\ mgr.op = "cleanup"
    /\ mgr.phase = "scan"
    /\ id \in mgr.todo
    /\ LET la == LastActivity[id]
           saw == mgr.seen \cup {<<id, la>>}
       IN IF ScanHit(mgr.op, mgr.now, la)
          THEN mgr' = [mgr EXCEPT !.phase = "close", !.id = id, !.seen = saw]
          ELSE mgr' = [mgr EXCEPT !.todo = @ \ {id}, !.seen = saw]
    /\ UNCHANGED <<sessions, nextId, closed, teardowns, LastActivity, selfPc, hPc, now>>
    /\ ev' = NoEvent

\* session.Close() in the scan: the check-and-set under cs.mu, which waits
\* for the lock. A Close that lost returns at once and the entry is deleted.
ScanClose ==
    /\ mgr.op = "cleanup"
    /\ mgr.phase = "close"
    /\ SessionMuFree(mgr.id)
    /\ IF WinsClose(mgr.id)
       THEN /\ mgr' = [mgr EXCEPT !.phase = "teardown", !.closedBy = @ \cup {mgr.id}]
            /\ closed' = [closed EXCEPT ![mgr.id] = TRUE]
            /\ UNCHANGED <<sessions, LastActivity>>
       ELSE /\ mgr' = [mgr EXCEPT !.phase = "scan", !.id = 0, !.todo = @ \ {mgr.id},
                                  !.closedBy = @ \cup {mgr.id},
                                  !.removed = @ \cup {mgr.id}]
            /\ sessions' = sessions \ {mgr.id}
            /\ LastActivity' = Without(LastActivity, mgr.id)
            /\ UNCHANGED closed
    /\ UNCHANGED <<nextId, teardowns, selfPc, hPc, now>>
    /\ ev' = NoEvent

\* Sessions with their read loops, and the cleanup scan.
RaceStep ==
    \/ CreateSession(TRUE)
    \/ CreateTwilioSession(TRUE)
    \/ \E id \in Ids : Start(id)
    \/ \E id \in Ids : TouchLock(id)
    \/ \E id \in Ids : TouchStore(id)
    \/ \E id \in Ids : SelfCloseEnter(id)
    \/ \E id \in Ids : SelfTeardown(id)
    \/ CleanupBegin
    \/ \E id \in Ids : ScanRead(id)
    \/ ScanClose
    \/ ScanTeardown
    \/ ScanEnd
    \/ Tick

NextRace == RaceStep /\ UNCHANGED <<bufVars, sessVars, codec, routine, lk, gp, act>>

SpecRace == InitManager /\ [][NextRace]_vars

(***************************************************************************)
(* ClientSession                                                           *)
(***************************************************************************)

\* ---- queueMessage (part_001:247-262)

\* The deferred OnError("gemini receiver closed") of the receive goroutine:
\* the error callback queues GEMINI_ERROR only when !cs.IsTwilio, and the
\* error is no websocket close error, so on a telephony session it returns
\* at once.
DeferPcAlwaysQueues == "defer_qm_check"
DeferPc == IF cs.IsTwilio THEN "done" ELSE "defer_qm_check"

\* Where each caller of queueMessage continues when it returns: Start goes
\* on to spawn the read loop, the read loop takes the next frame, a content
\* callback returns into the receive loop, OnError(err) calls Close when err
\* is a websocket close error and returns otherwise, and the deferred
\* OnError ends the receive goroutine.
AfterQueue(g) ==
    CASE g = "handler" -> "spawn_reader"
      [] g = "reader" -> "loop"
      [] g = "ai" -> CASE pc[g] \in {"cb_qm_check", "cb_qm_send"} -> "recv_top"
                       [] pc[g] \in {"err_qm_check", "err_qm_send"} ->
                            IF loc.errIsClose THEN "close" ELSE "defer_qm_check"
                       [] OTHER -> "done"
      [] OTHER -> "done"

\* The message the caller hands to queueMessage.
MsgFor(g) ==
    CASE pc[g] \in {"err_qm_check", "err_qm_send"} -> "error:GEMINI_ERROR"
      [] pc[g] \in {"defer_qm_check", "defer_qm_send"} -> "error:GEMINI_ERROR:receiver closed"
      [] OTHER -> loc.msg[g]

QueueCheckPcs == {"qm_check", "cb_qm_check", "err_qm_check", "defer_qm_check"}

QueueSendPcs == {"qm_send", "cb_qm_send", "err_qm_send", "defer_qm_send"}

SendPcOf(p) ==
    CASE p = "qm_check" -> "qm_send"
      [] p = "cb_qm_check" -> "cb_qm_send"
      [] p = "err_qm_check" -> "err_qm_send"
      [] OTHER -> "defer_qm_send"

\* closed := cs.closed under RLock; a closed session drops the message.
QueueCheck(g) ==
    /\ pc[g] \in QueueCheckPcs
    /\ IF cs.closed
       THEN /\ pc' = [pc EXCEPT ![g] = AfterQueue(g)]
            /\ loc' = [loc EXCEPT !.msg[g] = "none"]
       ELSE /\ pc' = [pc EXCEPT ![g] = SendPcOf(pc[g])]
            /\ UNCHANGED loc
    /\ UNCHANGED <<cs, obs, chunks, totalSize>>

\* The select has a default case, so the send never waits for room.
SendReadyBlocking(q) == Len(q) < writeBufferSize
SendReady(q) == TRUE

\* Whether the buffered channel takes one more message.
HasRoomAlways(q) == TRUE
HasRoom(q) == Len(q) < writeBufferSize

\* A send on a channel puts the message at the tail.
ChanSendFront(q, m) == <<m>> \o q
ChanSend(q, m) == Append(q, m)

\* select { case cs.writeChan <- msg: ... default: }. A send on a closed
\* channel panics; a full queue drops the message.
QueueSend(g) ==
    /\ pc[g] \in QueueSendPcs
    /\ SendReady(cs.writeChan)
    /\ IF cs.writeChanClosed
       THEN /\ obs' = [obs EXCEPT !.panicked = TRUE]
            /\ UNCHANGED <<cs, pc, loc>>
       ELSE /\ IF HasRoom(cs.writeChan)
               THEN /\ cs' = [cs EXCEPT !.writeChan =
                                ChanSend(@, [seq |-> obs.seq + 1, kind |-> MsgFor(g)])]
                    /\ obs' = [obs EXCEPT !.seq = @ + 1]
               ELSE /\ obs' = [obs EXCEPT !.dropped = TRUE]
                    /\ UNCHANGED cs
            /\ pc' = [pc EXCEPT ![g] = AfterQueue(g)]
            /\ loc' = [loc EXCEPT !.msg[g] = "none"]
    /\ UNCHANGED <<chunks, totalSize>>

\* ---- Close (part_001:271-304)

\* Where each caller of Close continues when it returns: the receive
\* goroutine still runs its deferred OnError, the others are finished.
AfterClose(g) == IF g = "ai" THEN DeferPc ELSE "done"

\* The check-and-set of cs.closed under cs.mu: TRUE when this call must run
\* the teardown body.
CloseWinsAlways == TRUE
CloseWinsNever == FALSE
CloseWins == ~cs.closed

\* Close, up to the unlock: a closed session returns nil at once.
CloseEnter(g) ==
    /\ pc[g] = "close"
    /\ IF CloseWins
       THEN /\ cs' = [cs EXCEPT !.closed = TRUE]
            /\ pc' = [pc EXCEPT ![g] = "td_cancel"]
            /\ UNCHANGED loc
       ELSE /\ pc' = [pc EXCEPT ![g] = AfterClose(g)]
            /\ UNCHANGED <<cs, loc>>
    /\ UNCHANGED <<obs, chunks, totalSize>>

\* One step of the teardown body: cs.cancel(); close(cs.writeChan);
\* close(cs.CloseChan); cs.AudioBuffer.Clear(); cs.GeminiProxy.Close();
\* cs.ClientConn.Close(). Closing a closed channel panics.
Teardown(g) ==
    /\ pc[g] \in TeardownPcs
    /\ LET k == CHOOSE i \in 1..Len(TeardownSteps) : TeardownSteps[i] = pc[g]
           next == IF k = Len(TeardownSteps) THEN AfterClose(g) ELSE TeardownSteps[k + 1]
           again == \/ pc[g] = "td_writeChan" /\ cs.writeChanClosed
                    \/ pc[g] = "td_CloseChan" /\ cs.CloseChanClosed
       IN IF again
          THEN /\ obs' = [obs EXCEPT !.panicked = TRUE, !.ran[k] = @ + 1]
               /\ UNCHANGED <<cs, pc, loc, chunks, totalSize>>
          ELSE /\ obs' = [obs EXCEPT !.ran[k] = @ + 1,
                                      !.accepted = IF pc[g] = "td_clear" THEN <<>> ELSE @]
               /\ cs' = CASE pc[g] = "td_cancel" -> [cs EXCEPT !.cancelled = TRUE]
                          [] pc[g] = "td_writeChan" -> [cs EXCEPT !.writeChanClosed = TRUE]
                          [] pc[g] = "td_CloseChan" -> [cs EXCEPT !.CloseChanClosed = TRUE]
                          [] pc[g] = "td_proxy" -> [cs EXCEPT !.proxyClosed = TRUE]
                          [] pc[g] = "td_conn" -> [cs EXCEPT !.connClosed = TRUE]
                          [] OTHER -> cs
               /\ chunks' = IF pc[g] = "td_clear" THEN <<>> ELSE chunks
               /\ totalSize' = IF pc[g] = "td_clear" THEN 0 ELSE totalSize
               /\ pc' = [pc EXCEPT ![g] = next]
               /\ UNCHANGED loc

\* ---- writePump (part_001:202-244)

\* A receive from the channel takes the message at the head.
ChanRecvLast(q) == q[Len(q)]
ChanRecv(q) == Head(q)

ChanRestLast(q) == SubSeq(q, 1, Len(q) - 1)
ChanRest(q) == Tail(q)

\* The outer select: CloseChan closed -> return; a message -> write it; the
\* queue closed and drained -> return. With several cases ready Go picks any.
\* A return runs the deferred close frame and ends the goroutine ("done").
PumpSelect ==
    /\ pc["writer"] = "select"
    /\ \/ /\ cs.CloseChanClosed
          /\ pc' = [pc EXCEPT !["writer"] = "done"]
          /\ UNCHANGED <<cs, loc>>
       \/ /\ Len(cs.writeChan) > 0
          /\ loc' = [loc EXCEPT !.inhand = ChanRecv(cs.writeChan)]
          /\ cs' = [cs EXCEPT !.writeChan = ChanRest(@)]
          /\ pc' = [pc EXCEPT !["writer"] = "write"]
       \/ /\ Len(cs.writeChan) = 0 /\ cs.writeChanClosed
          /\ pc' = [pc EXCEPT !["writer"] = "done"]
          /\ UNCHANGED <<cs, loc>>
    /\ UNCHANGED <<obs, chunks, totalSize>>

\* n := len(cs.writeChan), the number of passes of the batch-drain loop.
DrainCount(q) == Len(q)

\* cs.ClientConn.WriteJSON(msg): it fails on a closed connection and may
\* fail on an open one; a failed write ends the pump.
PumpWrite(ok) ==
    /\ pc["writer"] \in {"write", "drain_write"}
    /\ ok => ~cs.connClosed
    /\ IF ok
       THEN /\ obs' = [obs EXCEPT !.lastWritten = loc.inhand, !.nWritten = @ + 1,
                                   !.lastVia = IF pc["writer"] = "write"
                                               THEN "select" ELSE "drain"]
            /\ loc' = [loc EXCEPT !.inhand = NoMsg,
                                  !.drainLeft = IF pc["writer"] = "write"
                                                THEN DrainCount(cs.writeChan) ELSE @ - 1]
            /\ pc' = [pc EXCEPT !["writer"] = "drain"]
       ELSE /\ loc' = [loc EXCEPT !.inhand = NoMsg, !.drainLeft = 0]
            /\ pc' = [pc EXCEPT !["writer"] = "done"]
            /\ UNCHANGED obs
    /\ UNCHANGED <<cs, chunks, totalSize>>

\* One pass of for i := 0; i < n; i++ { select { case msg, ok := <-writeChan
\* ...; default: } }.
PumpDrain ==
    /\ pc["writer"] = "drain"
    /\ IF loc.drainLeft = 0
       THEN /\ pc' = [pc EXCEPT !["writer"] = "select"]
            /\ UNCHANGED <<cs, loc>>
       ELSE IF Len(cs.writeChan) > 0
       THEN /\ loc' = [loc EXCEPT !.inhand = ChanRecv(cs.writeChan)]
            /\ cs' = [cs EXCEPT !.writeChan = ChanRest(@)]
            /\ pc' = [pc EXCEPT !["writer"] = "drain_write"]
       ELSE IF cs.writeChanClosed
       THEN /\ pc' = [pc EXCEPT !["writer"] = "done"]
            /\ loc' = [loc EXCEPT !.drainLeft = 0]
            /\ UNCHANGED cs
       ELSE /\ loc' = [loc EXCEPT !.drainLeft = @ - 1]
            /\ UNCHANGED <<cs, pc>>
    /\ UNCHANGED <<obs, chunks, totalSize>>

\* ---- Start (part_001:98-104)

\* go cs.writePump()
StartPump ==
    /\ pc["handler"] = "start"
    /\ pc' = [pc EXCEPT !["handler"] = "start_recv", !["writer"] = "select"]
    /\ UNCHANGED <<cs, loc, obs, chunks, totalSize>>

\* setupGeminiCallbacks; GeminiProxy.StartReceiving spawns the receive
\* goroutine; Start goes on to queue the "connected" status.
StartReceiving ==
    /\ pc["handler"] = "start_recv"
    /\ pc' = [pc EXCEPT !["handler"] = "qm_check", !["ai"] = "recv_top"]
    /\ loc' = [loc EXCEPT !.msg["handler"] = "status:connected"]
    /\ UNCHANGED <<cs, obs, chunks, totalSize>>

\* go cs.handleClientMessages(); the connection handler then waits on
\* CloseChan (part_005:73-103). The RemoveSession it calls afterwards is one
\* of the Manager's calls of Close.
SpawnReader ==
    /\ pc["handler"] = "spawn_reader"
    /\ pc' = [pc EXCEPT !["handler"] = "wait", !["reader"] = "loop"]
    /\ UNCHANGED <<cs, loc, obs, chunks, totalSize>>

\* ---- handleClientMessages, processClientMessage (part_001:417-512)

\* What a client can put in one WebSocket frame: a binary frame, or a text
\* frame that is bad JSON, an envelope of a known type with a good or a bad
\* payload, or an envelope of an unknown type.
Frames ==
    [k : {"binary", "audio", "audio_binary"}, chunk : Chunks] \cup
    [k : {"bad_json", "audio_bad", "audio_bad_base64", "audio_binary_bad",
          "control_bad", "ping", "end_turn", "control_unknown", "unknown_type",
          "config"},
     chunk : {<<>>}]

\* select { case <-cs.CloseChan: return; default: ReadMessage }
ReaderLoop ==
    /\ pc["reader"] = "loop"
    /\ pc' = [pc EXCEPT !["reader"] = IF cs.CloseChanClosed THEN "close" ELSE "read"]
    /\ UNCHANGED <<cs, loc, obs, chunks, totalSize>>

\* processClientMessage's default case: an INVALID_MESSAGE envelope whose
\* text is "Unknown message type: " + msg.Type. The switch has the cases
\* "audio", "audio_binary" and "control" only, so an envelope of type
\* "config" takes the default case.
UnknownTypeReply(type) ==
    IF type = "config" THEN "error:INVALID_MESSAGE:Unknown message type: config"
    ELSE "error:INVALID_MESSAGE"

\* The reply the read loop queues for a frame it does not buffer; "none"
\* when the frame is dropped silently.
ReplyTo(k) ==
    CASE k \in {"bad_json", "audio_bad", "audio_bad_base64", "control_bad",
                "control_unknown", "unknown_type"} -> "error:INVALID_MESSAGE"
      [] k = "config" -> UnknownTypeReply("config")
      [] k = "ping" -> "status:pong"
      [] OTHER -> "none"

\* ReadMessage returns a frame. A frame that is answered without touching
\* the AudioBuffer goes straight to its reply; audio and end_turn go on to
\* the buffer.
ReaderRead(f, max) ==
    /\ pc["reader"] = "read"
    /\ ~cs.connClosed
    /\ obs.events < max
    /\ obs' = [obs EXCEPT !.events = @ + 1, !.aiLog = <<>>, !.turnData = <<>>,
                          !.lastAppend = NoAppend]
    /\ IF ReplyTo(f.k) # "none"
       THEN /\ loc' = [loc EXCEPT !.msg["reader"] = ReplyTo(f.k)]
            /\ pc' = [pc EXCEPT !["reader"] = "qm_check"]
       ELSE IF f.k = "audio_binary_bad"
       THEN /\ pc' = [pc EXCEPT !["reader"] = "loop"]
            /\ loc' = [loc EXCEPT !.frame = f]
       ELSE /\ loc' = [loc EXCEPT !.frame = f]
            /\ pc' = [pc EXCEPT !["reader"] = "process"]
    /\ UNCHANGED <<cs, chunks, totalSize>>

\* ReadMessage returns an error (the client went away, or the connection
\* was closed): the loop returns and the deferred Close runs.
ReaderReadError ==
    /\ pc["reader"] = "read"
    /\ pc' = [pc EXCEPT !["reader"] = "close"]
    /\ UNCHANGED <<cs, loc, obs, chunks, totalSize>>

\* Audio is appended to the AudioBuffer: a full buffer is reported for
\* "binary" and "audio" and ignored for "audio_binary". end_turn enters
\* handleEndTurn, which returns at once when IsEmpty.
ReaderProcess ==
    /\ pc["reader"] = "process"
    /\ LET f == loc.frame
           isAudio == f.k # "end_turn"
           full == BufferFull(NewSize(totalSize, f.chunk))
           reply == IF isAudio /\ full /\ f.k # "audio_binary"
                    THEN "error:BUFFER_FULL" ELSE "none"
       IN /\ chunks' = IF isAudio /\ ~full THEN AppendChunk(chunks, f.chunk) ELSE chunks
          /\ totalSize' = IF isAudio /\ ~full THEN NewSize(totalSize, f.chunk) ELSE totalSize
          /\ loc' = [loc EXCEPT !.frame = IF f.k = "end_turn" /\ ~IsEmpty THEN f ELSE NoFrame,
                                !.msg["reader"] = reply]
          /\ pc' = [pc EXCEPT !["reader"] =
                      IF reply # "none" THEN "qm_check"
                      ELSE IF f.k = "end_turn" /\ ~IsEmpty THEN "flush"
                      ELSE "loop"]
          /\ obs' = [obs EXCEPT !.accepted =
                        IF isAudio /\ ~full THEN Append(@, f.chunk) ELSE @,
                                !.lastAppend =
                        IF isAudio THEN [k |-> f.k, full |-> full] ELSE @]
    /\ UNCHANGED cs

\* ---- handleEndTurn (part_001:515-531), SendAudioBatch (proxy.go:173-273)

\* audioData := cs.AudioBuffer.Flush()
ReaderFlush ==
    /\ pc["reader"] = "flush"
    /\ loc' = [loc EXCEPT !.audioData = IF chunks = <<>> THEN <<>> ELSE FlushResult(chunks)]
    /\ obs' = [obs EXCEPT !.turnData = Concat(obs.accepted), !.accepted = <<>>]
    /\ chunks' = <<>>
    /\ totalSize' = 0
    /\ pc' = [pc EXCEPT !["reader"] = "send_audio"]
    /\ UNCHANGED cs

\* SendAudioBatch has nothing to do for empty data.
NothingToSendNever(data) == FALSE
NothingToSend(data) == Len(data) = 0

\* SendAudioBatch, first half: sendRealtimeInput(audioData). A closed proxy
\* or a failed send is an error, and the error is queued for the client.
ReaderSendAudio(ok) ==
    /\ pc["reader"] = "send_audio"
    /\ ok => ~cs.proxyClosed
    /\ IF NothingToSend(loc.audioData)
       THEN /\ pc' = [pc EXCEPT !["reader"] = "loop"]
            /\ loc' = [loc EXCEPT !.audioData = <<>>, !.frame = NoFrame]
            /\ UNCHANGED obs
       ELSE IF ok
       THEN /\ obs' = [obs EXCEPT !.aiLog = Append(@, [k |-> "audio", data |-> loc.audioData])]
            /\ pc' = [pc EXCEPT !["reader"] = "send_end"]
            /\ loc' = [loc EXCEPT !.audioData = <<>>]
       ELSE /\ pc' = [pc EXCEPT !["reader"] = "qm_check"]
            /\ loc' = [loc EXCEPT !.audioData = <<>>, !.frame = NoFrame,
                                  !.msg["reader"] = "error:GEMINI_ERROR"]
            /\ UNCHANGED obs
    /\ UNCHANGED <<cs, chunks, totalSize>>

\* SendAudioBatch, second half: sendTurnComplete().
ReaderSendEnd(ok) ==
    /\ pc["reader"] = "send_end"
    /\ ok => ~cs.proxyClosed
    /\ IF ok
       THEN /\ obs' = [obs EXCEPT !.aiLog = Append(@, [k |-> "end", data |-> <<>>])]
            /\ pc' = [pc EXCEPT !["reader"] = "loop"]
            /\ loc' = [loc EXCEPT !.frame = NoFrame]
       ELSE /\ pc' = [pc EXCEPT !["reader"] = "qm_check"]
            /\ loc' = [loc EXCEPT !.frame = NoFrame, !.msg["reader"] = "error:GEMINI_ERROR"]
            /\ UNCHANGED obs
    /\ UNCHANGED <<cs, chunks, totalSize>>

\* ---- Proxy.StartReceiving (proxy.go:91-127), the callbacks (part_001:115-199)

\* The head of the receive loop: a closed proxy ends the goroutine, whose
\* deferred function calls OnError("gemini receiver closed").
AiLoop ==
    /\ pc["ai"] = "recv_top"
    /\ pc' = [pc EXCEPT !["ai"] = IF cs.proxyClosed THEN DeferPc ELSE "recv"]
    /\ UNCHANGED <<cs, loc, obs, chunks, totalSize>>

\* What the AI service sends back: audio, text, or the end of its turn.
AiContent == {"audio", "text", "status:turn_complete"}

\* session.Receive returns a message; handleResponse calls the callback,
\* which queues the message for the client.
AiReceive(k) ==
    /\ pc["ai"] = "recv"
    /\ ~cs.proxyClosed
    /\ obs.events < MaxEvents
    /\ obs' = [obs EXCEPT !.events = @ + 1]
    /\ loc' = [loc EXCEPT !.msg["ai"] = k]
    /\ pc' = [pc EXCEPT !["ai"] = "cb_qm_check"]
    /\ UNCHANGED <<cs, chunks, totalSize>>

\* session.Receive returns an error: OnError(err) unless the proxy is
\* closed, then the deferred OnError. isClose: err is a websocket close
\* error, for which OnError closes the session.
AiReceiveError(isClose) ==
    /\ pc["ai"] = "recv"
    /\ loc' = [loc EXCEPT !.errIsClose = isClose /\ ~cs.proxyClosed]
    /\ pc' = [pc EXCEPT !["ai"] = IF cs.proxyClosed THEN "defer_qm_check" ELSE "err_qm_check"]
    /\ UNCHANGED <<cs, obs, chunks, totalSize>>

(***************************************************************************)
(* Specifications                                                          *)
(***************************************************************************)

InitBuffer ==
    /\ CodecIdle
    /\ RoutineOff
    /\ LocksIdle
    /\ ProxyIdle
    /\ ActIdle
    /\ BufInit
    /\ BufIdle
    /\ MgrInit
    /\ SessInit

NextBuffer ==
    \/ \E p \in Producers, c \in Chunks : AppendLock(p, c) /\ UNCHANGED <<mgrVars, sessVars, codec, routine, lk, gp, act>>
    \/ \E p \in Producers : AppendCheck(p) /\ UNCHANGED <<mgrVars, sessVars, codec, routine, lk, gp, act>>
    \/ \E p \in Producers : AppendStore(p) /\ UNCHANGED <<mgrVars, sessVars, codec, routine, lk, gp, act>>
    \/ \E p \in Producers : FlushLock(p) /\ UNCHANGED <<mgrVars, sessVars, codec, routine, lk, gp, act>>
    \/ \E p \in Producers : FlushBody(p) /\ UNCHANGED <<mgrVars, sessVars, codec, routine, lk, gp, act>>
    \/ \E p \in Producers : ClearLock(p) /\ UNCHANGED <<mgrVars, sessVars, codec, routine, lk, gp, act>>
    \/ \E p \in Producers : ClearBody(p) /\ UNCHANGED <<mgrVars, sessVars, codec, routine, lk, gp, act>>

SpecBuffer == InitBuffer /\ [][NextBuffer]_vars

Init ==
    /\ CodecIdle
    /\ RoutineOff
    /\ LocksIdle
    /\ ProxyIdle
    /\ ActIdle
    /\ SessInit
    /\ BufInit
    /\ BufIdle
    /\ MgrInit

\* The frames the read loop answers or drops without touching the
\* AudioBuffer, the session configuration apart.
ReplyFrames ==
    {f \in Frames : f.k \notin {"binary", "audio", "audio_binary", "end_turn", "config"}}

\* The envelope of type "config" with a systemPrompt that the README and
\* messages.ConfigPayload describe.
ConfigFrames == {f \in Frames : f.k = "config"}

\* One session with all its goroutines scheduled: Start, the read loop on
\* frames that are answered at once, the write pump, the receive goroutine
\* with its callbacks, and Close from every caller.
QueueStep ==
    \/ StartPump
    \/ StartReceiving
    \/ SpawnReader
    \/ \E g \in Procs : QueueCheck(g)
    \/ \E g \in Procs : QueueSend(g)
    \/ \E g \in Procs : CloseEnter(g)
    \/ \E g \in Procs : Teardown(g)
    \/ PumpSelect
    \/ \E ok \in BOOLEAN : PumpWrite(ok)
    \/ PumpDrain
    \/ ReaderLoop
    \/ \E f \in ReplyFrames : ReaderRead(f, MaxEvents)
    \/ ReaderReadError
    \/ AiLoop
    \/ \E k \in AiContent : AiReceive(k)
    \/ \E isClose \in BOOLEAN : AiReceiveError(isClose)

\* A panic in any goroutine ends the process.
NextQueue ==
    /\ ~obs.panicked
    /\ QueueStep
    /\ UNCHANGED <<abMu, pcB, argB, newSizeB, logB, flushed, mgrVars, codec, routine, lk, gp, act>>

SpecQueue == Init /\ [][NextQueue]_vars

\* The frames of a turn: audio in its three encodings, and end_turn.
TurnFrames == {f \in Frames : f.k \in {"binary", "audio", "audio_binary", "end_turn"}}

\* An audio_binary envelope whose payload is no JSON object or whose data
\* is no base64.
MalformedBinaryFrames == {f \in Frames : f.k = "audio_binary_bad"}

\* The same session with only Start, the read loop and the callers of Close
\* scheduled: the write pump and the receive goroutine are started and never
\* run, which leaves room for whole turns of several frames, with session
\* configuration sent in between.
TurnStep ==
    \/ StartPump
    \/ StartReceiving
    \/ SpawnReader
    \/ \E g \in {"handler", "reader"} : QueueCheck(g)
    \/ \E g \in {"handler", "reader"} : QueueSend(g)
    \/ \E g \in {"reader", "manager"} : CloseEnter(g)
    \/ \E g \in {"reader", "manager"} : Teardown(g)
    \/ ReaderLoop
    \/ \E f \in TurnFrames \cup ConfigFrames \cup MalformedBinaryFrames :
          ReaderRead(f, MaxFrames)
    \/ ReaderReadError
    \/ ReaderProcess
    \/ ReaderFlush
    \/ \E ok \in BOOLEAN : ReaderSendAudio(ok)
    \/ \E ok \in BOOLEAN : ReaderSendEnd(ok)

NextTurn ==
    /\ ~obs.panicked
    /\ TurnStep
    /\ UNCHANGED <<abMu, pcB, argB, newSizeB, logB, flushed, mgrVars, codec, routine, lk, gp, act>>

SpecTurn == Init /\ [][NextTurn]_vars

(***************************************************************************)
(* The mu-law codec (part_001:584-657)                                     *)
(***************************************************************************)

Int16 == -32768..32767

MuLawBytes == 0..255

RECURSIVE Pow2(_)
Pow2(n) == IF n = 0 THEN 1 ELSE 2 * Pow2(n - 1)

\* Go's conversions: the low 8 or 16 bits of n, read unsigned or signed.
ToByte(n) == n % 256
ToUint16(n) == n % 65536
ToInt16(n) == ((n + 32768) % 65536) - 32768

\* Bit k of the 16-bit two's complement of n.
Bit16(n, k) == (ToUint16(n) \div Pow2(k)) % 2

\* n >> k on a signed integer: the arithmetic shift.
Shr(n, k) == n \div Pow2(k)

\* const bias = 0x84; const clip = 32635
bias == 132
clip == 32635

\* sample := int16((int32(mantissa)<<3 + 0x84) << exponent). The int32
\* intermediate is at most (15 * 8 + 132) * 128 and cannot wrap; the
\* conversion to int16 keeps its low 16 bits.
DecodeMagnitudeNoBias(mantissa, exponent) ==
    ToInt16((mantissa * 8) * Pow2(exponent))
DecodeMagnitude(mantissa, exponent) ==
    ToInt16((mantissa * 8 + bias) * Pow2(exponent))

\* decodeMuLawByte: invert the byte, take sign, exponent and mantissa,
\* rebuild the magnitude, take the bias out, apply the sign; every step in
\* the width of its Go type.
decodeMuLawByte(uVal) ==
    LET u == ToByte(255 - uVal)
        sign == (u \div 128) % 2
        exponent == (u \div 16) % 8
        mantissa == u % 16
        sample == ToInt16(DecodeMagnitude(mantissa, exponent) - bias)
    IN IF sign # 0 THEN ToInt16(-sample) ELSE sample

\* init(): the table holds decodeMuLawByte of every byte.
muLawToPcmTable == [b \in MuLawBytes |-> decodeMuLawByte(b)]

\* for mask := 0x4000; (pcm&mask) == 0 && exponent > 0; mask >>= 1 { exponent-- }
RECURSIVE ExponentSearch(_, _, _)
ExponentSearch(pcm, maskBit, exponent) ==
    IF Bit16(pcm, maskBit) = 0 /\ exponent > 0
    THEN ExponentSearch(pcm, maskBit - 1, exponent - 1)
    ELSE exponent

\* if pcm < 0 { pcm = -pcm }: the negation stays in 16 bits.
MagnitudeUnbounded(pcm) == IF pcm < 0 THEN -pcm ELSE pcm
Magnitude(pcm) == IF pcm < 0 THEN ToInt16(-pcm) ELSE pcm

\* PcmToMuLawByte: sign, magnitude, clip, bias, exponent and mantissa, the
\* assembled byte inverted; every step in 16 bits.
PcmToMuLawByte(pcm) ==
    LET sign == 128 * Bit16(Shr(pcm, 8), 7)
        clipped == IF Magnitude(pcm) > clip THEN clip ELSE Magnitude(pcm)
        biased == ToInt16(clipped + bias)
        exponent == ExponentSearch(biased, 14, 7)
        mantissa == ToUint16(Shr(biased, exponent + 3)) % 16
        ulawByte == ToByte(sign + exponent * 16 + mantissa)
    IN ToByte(255 - ulawByte)

\* binary.LittleEndian.PutUint16(sample, uint16(pcmVal))
PutUint16BigEndian(v) == <<ToUint16(v) \div 256, ToUint16(v) % 256>>
PutUint16(v) == <<ToUint16(v) % 256, ToUint16(v) \div 256>>

\* muLawToPCMUpsample: every mu-law byte becomes its sample written twice.
UpsampleOnce(sample) == sample
UpsampleTwice(sample) == sample \o sample

RECURSIVE muLawToPCMUpsample(_)
muLawToPCMUpsample(muLawData) ==
    IF muLawData = <<>> THEN <<>>
    ELSE UpsampleTwice(PutUint16(muLawToPcmTable[Head(muLawData)]))
            \o muLawToPCMUpsample(Tail(muLawData))

\* The codec is handed a byte to decode, or a sample to encode, decode and
\* encode again.
CodecInit ==
    codec \in [stage : {"byte"}, b : MuLawBytes] \cup [stage : {"sample"}, x : Int16]

\* muLawToPcmTable[b]
DecodeByte ==
    /\ codec.stage = "byte"
    /\ codec' = [stage |-> "decoded", b |-> codec.b, pcm |-> muLawToPcmTable[codec.b]]

\* PcmToMuLawByte(x)
EncodeSample ==
    /\ codec.stage = "sample"
    /\ codec' = [stage |-> "encoded", x |-> codec.x, e1 |-> PcmToMuLawByte(codec.x)]

\* decodeMuLawByte of the encoded byte
DecodeEncoded ==
    /\ codec.stage = "encoded"
    /\ codec' = [stage |-> "round", x |-> codec.x, e1 |-> codec.e1,
                 d1 |-> decodeMuLawByte(codec.e1)]

\* PcmToMuLawByte of the decoded sample, and its decoding
EncodeAgain ==
    /\ codec.stage = "round"
    /\ codec' = [stage |-> "round2", x |-> codec.x, e1 |-> codec.e1, d1 |-> codec.d1,
                 e2 |-> PcmToMuLawByte(codec.d1),
                 d2 |-> decodeMuLawByte(PcmToMuLawByte(codec.d1))]

InitCodec ==
    /\ CodecInit
    /\ RoutineOff
    /\ LocksIdle
    /\ ProxyIdle
    /\ ActIdle
    /\ SessInit
    /\ BufInit
    /\ BufIdle
    /\ MgrInit

NextCodec ==
    /\ \/ DecodeByte
       \/ EncodeSample
       \/ DecodeEncoded
       \/ EncodeAgain
    /\ UNCHANGED <<bufVars, mgrVars, sessVars, routine, lk, gp, act>>

SpecCodec == InitCodec /\ [][NextCodec]_vars

(***************************************************************************)
(* The telephony session (part_001:107-112, 136-184, 309-415)              *)
(***************************************************************************)

\* Frames read from the provider plus messages received from the AI
\* service, over one call.
MaxCallEvents == 3

\* The stream identifiers a call can announce.
StreamSids == {"MZ1", "MZ2"}

\* The mu-law payloads of a media event, the empty one included.
MuLawChunks == {<<>>, <<0>>, <<128, 255>>}

\* What the telephony provider can put in one frame: bad JSON (or JSON
\* without an event field), connected, a start with a streamSid (which may
\* be the empty string), a start without start data or without streamSid,
\* media with a payload, media without media data, without payload or with
\* bad base64, stop, mark, and an unknown event.
TwilioEvents ==
    [k : {"start"}, sid : StreamSids \cup {""}, chunk : {<<>>}] \cup
    [k : {"media"}, sid : {""}, chunk : MuLawChunks] \cup
    [k : {"bad_json", "connected", "start_bad", "media_bad", "stop", "mark",
          "unknown"}, sid : {""}, chunk : {<<>>}]

\* The outbound media frame NewTwilioMessageBack builds for a streamSid.
MediaFrame(sid) ==
    CASE sid = "MZ1" -> "media:MZ1"
      [] sid = "MZ2" -> "media:MZ2"
      [] OTHER -> "media:"

\* setupTwilioGeminiCallbacks, then GeminiProxy.StartReceiving spawns the
\* receive goroutine; StartTwilio queues no message of its own.
StartTwilioReceiving ==
    /\ pc["handler"] = "start_recv"
    /\ pc' = [pc EXCEPT !["handler"] = "spawn_reader", !["ai"] = "recv_top"]
    /\ UNCHANGED <<cs, loc, obs, chunks, totalSize>>

\* cs.StreamSid after an event: only a start that carries start data with a
\* string streamSid assigns it.
StoredSidAnyStart(old, e) == IF e.k \in {"start", "start_bad"} THEN e.sid ELSE old
StoredSid(old, e) == IF e.k = "start" THEN e.sid ELSE old

\* ReadMessage returns a frame to handleClientMessagesFromTwilio. A start
\* with a streamSid stores it under cs.mu; media with a payload goes on to
\* SendAudio; stop returns from the loop, into the deferred Close; every
\* other frame is logged and the loop continues.
TwilioRead(e) ==
    /\ pc["reader"] = "read"
    /\ ~cs.connClosed
    /\ obs.events < MaxCallEvents
    /\ obs' = [obs EXCEPT !.events = @ + 1, !.aiLog = <<>>,
                          !.started = @ \/ (e.k = "start" /\ e.sid # ""),
                          !.lastStart = IF e.k = "start" THEN e.sid ELSE @]
    /\ cs' = [cs EXCEPT !.StreamSid = StoredSid(@, e)]
    /\ loc' = [loc EXCEPT !.frame = e]
    /\ pc' = [pc EXCEPT !["reader"] =
                CASE e.k = "media" -> "tw_send"
                  [] e.k = "stop" -> "close"
                  [] OTHER -> "loop"]
    /\ UNCHANGED <<chunks, totalSize>>

\* pcmData := muLawToPCMUpsample(muLawData); GeminiProxy.SendAudio(pcmData).
\* The call is made whatever the payload's length; its error is only
\* logged, and the loop continues.
TwilioSendAudio(ok) ==
    /\ pc["reader"] = "tw_send"
    /\ ok => ~cs.proxyClosed
    /\ obs' = [obs EXCEPT !.aiLog =
                 Append(@, [k |-> "audio", data |-> muLawToPCMUpsample(loc.frame.chunk),
                            ok |-> ok])]
    /\ pc' = [pc EXCEPT !["reader"] = "loop"]
    /\ UNCHANGED <<cs, loc, chunks, totalSize>>

\* What the AI service sends back on a call: audio, audio that is no valid
\* base64, text, the end of its turn, or a tool call.
TwilioAiContent == {"audio", "audio_bad", "text", "turn_complete", "tool_call"}

\* if streamSid == "" { return }
SidMissingNever(sid) == FALSE
SidMissing(sid) == sid = ""

\* session.Receive returns a message. OnAudioRaw reads cs.StreamSid under
\* RLock, returns when it is empty or the audio does not decode, and
\* otherwise hands the media frame for that streamSid to queueMessage.
\* OnText and OnComplete only log; handleToolCalls queues nothing for a
\* telephony session.
TwilioReceive(k) ==
    /\ pc["ai"] = "recv"
    /\ ~cs.proxyClosed
    /\ obs.events < MaxCallEvents
    /\ obs' = [obs EXCEPT !.events = @ + 1]
    /\ IF k \in {"audio", "audio_bad"}
       THEN /\ IF SidMissing(cs.StreamSid) \/ k = "audio_bad"
               THEN /\ loc' = [loc EXCEPT !.streamSid = cs.StreamSid]
                    /\ pc' = [pc EXCEPT !["ai"] = "recv_top"]
               ELSE /\ loc' = [loc EXCEPT !.streamSid = cs.StreamSid,
                                          !.msg["ai"] = MediaFrame(cs.StreamSid)]
                    /\ pc' = [pc EXCEPT !["ai"] = "cb_qm_check"]
       ELSE /\ pc' = [pc EXCEPT !["ai"] = "recv_top"]
            /\ UNCHANGED loc
    /\ UNCHANGED <<cs, chunks, totalSize>>

\* session.Receive returns an error: OnError(err) unless the proxy is
\* closed. On a telephony session the error callback queues nothing; it
\* closes the session when err is a websocket close error.
TwilioReceiveError(isClose) ==
    /\ pc["ai"] = "recv"
    /\ loc' = [loc EXCEPT !.errIsClose = isClose /\ ~cs.proxyClosed]
    /\ pc' = [pc EXCEPT !["ai"] = IF isClose /\ ~cs.proxyClosed THEN "close" ELSE DeferPc]
    /\ UNCHANGED <<cs, obs, chunks, totalSize>>

InitTwilio ==
    /\ CodecIdle
    /\ RoutineOff
    /\ LocksIdle
    /\ ProxyIdle
    /\ ActIdle
    /\ SessInitFor(TRUE)
    /\ BufInit
    /\ BufIdle
    /\ MgrInit

\* One telephony session with all its goroutines scheduled.
TwilioStep ==
    \/ StartPump
    \/ StartTwilioReceiving
    \/ SpawnReader
    \/ QueueCheck("ai")
    \/ QueueSend("ai")
    \/ \E g \in Procs : CloseEnter(g)
    \/ \E g \in Procs : Teardown(g)
    \/ PumpSelect
    \/ \E ok \in BOOLEAN : PumpWrite(ok)
    \/ PumpDrain
    \/ ReaderLoop
    \/ \E e \in TwilioEvents : TwilioRead(e)
    \/ ReaderReadError
    \/ \E ok \in BOOLEAN : TwilioSendAudio(ok)
    \/ AiLoop
    \/ \E k \in TwilioAiContent : TwilioReceive(k)
    \/ \E isClose \in BOOLEAN : TwilioReceiveError(isClose)

NextTwilio ==
    /\ ~obs.panicked
    /\ TwilioStep
    /\ UNCHANGED <<abMu, pcB, argB, newSizeB, logB, flushed, mgrVars, codec, routine, lk, gp, act>>

SpecTwilio == InitTwilio /\ [][NextTwilio]_vars

(***************************************************************************)
(* A session of either kind, with its scheduling                           *)
(***************************************************************************)

\* The Manager starts a browser session with Start and a telephony session
\* with StartTwilio (manager.go:66-103).
InitLive ==
    /\ CodecIdle
    /\ RoutineOff
    /\ LocksIdle
    /\ ProxyIdle
    /\ ActIdle
    /\ SessInitFor(TRUE) \/ SessInitFor(FALSE)
    /\ BufInit
    /\ BufIdle
    /\ MgrInit

\* The steps the goroutines of the session take on their own: a started
\* goroutine keeps running, a call that was entered returns, a write on the
\* connection completes or fails, and a Close that was entered goes on.
\* The Manager's call of Close is not among them.
ProgramStep ==
    \/ StartPump
    \/ ~cs.IsTwilio /\ StartReceiving
    \/ cs.IsTwilio /\ StartTwilioReceiving
    \/ SpawnReader
    \/ \E g \in Procs : QueueCheck(g)
    \/ \E g \in Procs : QueueSend(g)
    \/ \E g \in Procs \ {"manager"} : CloseEnter(g)
    \/ \E g \in Procs : Teardown(g)
    \/ PumpSelect
    \/ \E ok \in BOOLEAN : PumpWrite(ok)
    \/ PumpDrain
    \/ ReaderLoop
    \/ \E ok \in BOOLEAN : TwilioSendAudio(ok)
    \/ AiLoop

\* What the session's surroundings do, when and if they choose: the client
\* sends a frame or goes away, the AI service sends content or fails, the
\* Manager evicts the session or shuts down.
EnvironmentStep ==
    \/ \E f \in ReplyFrames : ~cs.IsTwilio /\ ReaderRead(f, MaxEvents)
    \/ \E e \in TwilioEvents : cs.IsTwilio /\ TwilioRead(e)
    \/ ReaderReadError
    \/ \E k \in AiContent : ~cs.IsTwilio /\ AiReceive(k)
    \/ \E isClose \in BOOLEAN : ~cs.IsTwilio /\ AiReceiveError(isClose)
    \/ \E k \in TwilioAiContent : cs.IsTwilio /\ TwilioReceive(k)
    \/ \E isClose \in BOOLEAN : cs.IsTwilio /\ TwilioReceiveError(isClose)
    \/ CloseEnter("manager")

\* A panic in any goroutine ends the process.
NextProgram ==
    /\ ~obs.panicked
    /\ ProgramStep
    /\ UNCHANGED <<abMu, pcB, argB, newSizeB, logB, flushed, mgrVars, codec, routine, lk, gp, act>>

NextEnvironment ==
    /\ ~obs.panicked
    /\ EnvironmentStep
    /\ UNCHANGED <<abMu, pcB, argB, newSizeB, logB, flushed, mgrVars, codec, routine, lk, gp, act>>

NextLive == NextProgram \/ NextEnvironment

\* The Go scheduler runs every goroutine that can run; nothing obliges the
\* client, the AI service or the Manager to act.
SpecLive == InitLive /\ [][NextLive]_vars /\ WF_vars(NextProgram)

(***************************************************************************)
(* AudioBuffer: properties                                                 *)
(***************************************************************************)

\* A producer returns from Flush in this step.
FlushReturns(p) == pcB[p] = "flush" /\ pcB'[p] = "idle"

\* An Append call returns in this step (its entry is the last of logB').
AppendReturns == Len(logB') = Len(logB) + 1

\* C1: Appends on an empty buffer whose chunk lengths sum to at most maxSize
\* all return nil; the next Flush returns the byte-for-byte concatenation of
\* exactly those chunks, in append order, and leaves Size = 0, ChunkCount = 0,
\* IsEmpty; a Flush of an empty buffer returns nil and changes nothing.
C1_AppendThenFlush ==
    /\ [](\A i \in 1..Len(logB) :
            SumLen(ChunksOf(SubSeq(logB, 1, i))) <= maxSize => logB[i].err = "nil")
    /\ [][\A p \in Producers : FlushReturns(p) =>
            /\ (SumLen(ChunksOf(logB)) <= maxSize
                  => flushed'.data = Concat(ChunksOf(logB)))
            /\ totalSize' = 0 /\ Len(chunks') = 0
            /\ (Len(chunks) = 0 =>
                  /\ flushed'.isNil /\ flushed'.data = <<>>
                  /\ chunks' = chunks /\ totalSize' = totalSize)]_vars

\* C1 witness: a Flush has returned three bytes that arrived in more than one
\* chunk, every Append before it having fitted.
C1_Witness ==
    /\ flushed.data = <<1, 0, 1>>
    /\ ~flushed.isNil
    /\ ~flushed.rejected
    /\ chunks = <<>> /\ totalSize = 0

\* C2: an Append with totalSize + len(chunk) > maxSize returns ErrBufferFull
\* and leaves chunks and totalSize as they were (rejected whole, not
\* truncated); a later Flush returns exactly the accepted chunks.
C2_RejectLeavesBufferUnchanged ==
    /\ [][AppendReturns =>
            LET e == logB'[Len(logB')] IN
            /\ (totalSize + Len(e.chunk) > maxSize => e.err = "ErrBufferFull")
            /\ (e.err = "ErrBufferFull" => chunks' = chunks /\ totalSize' = totalSize)]_vars
    /\ [](flushed.data = flushed.expect)

\* C2 witness: a two-byte chunk was rejected while one byte of room was left,
\* and the Flush after it returned the two bytes accepted before.
C2_Witness ==
    /\ flushed.rejected
    /\ flushed.data = <<0, 1>>
    /\ \E i \in 1..Len(logB) :
          /\ logB[i].err = "ErrBufferFull"
          /\ Len(logB[i].chunk) = 2
          /\ totalSize = maxSize - 1

\* C3: in every state totalSize is the sum of the lengths of the chunks held
\* and at most maxSize; when every call has returned, Size is the sum of the
\* lengths of the chunks whose Append returned nil since the last Flush/Clear.
C3_TotalIsSumAndBounded ==
    /\ totalSize = SumLen(chunks)
    /\ totalSize <= maxSize
    /\ ((\A p \in Producers : pcB[p] = "idle")
          => /\ Size = SumLen(AcceptedOf(logB))
             /\ chunks = AcceptedOf(logB))

\* C3 witness: both producers had a chunk accepted, one had one rejected, and
\* the buffer is full.
C3_Witness ==
    /\ \A p \in Producers : pcB[p] = "idle"
    /\ \E i, j, k \in 1..Len(logB) :
          /\ logB[i].by = "p1" /\ logB[i].err = "nil"
          /\ logB[j].by = "p2" /\ logB[j].err = "nil"
          /\ logB[k].err = "ErrBufferFull"
    /\ totalSize = maxSize

(***************************************************************************)
(* Manager: properties                                                     *)
(***************************************************************************)

CreateOps == {"create", "createTwilio"}

RemoveOps == {"remove", "removeAbsent"}

\* C4: CreateSession and CreateTwilioSession called while the registry holds
\* MaxSessions entries fail and leave the registry unchanged; the registry
\* never holds more than MaxSessions entries, whatever RemoveSession, the
\* cleanup scan and Shutdown do in between.
C4_CapNeverExceeded ==
    /\ [](Cardinality(sessions) <= MaxSessions)
    /\ [][(ev'.op \in CreateOps /\ Cardinality(sessions) >= MaxSessions) =>
            /\ ev'.err = "maximum sessions reached"
            /\ sessions' = sessions
            /\ LastActivity' = LastActivity]_vars

\* C4 witness: CreateTwilioSession has just been refused at a full registry.
C4_Witness ==
    /\ ev.op = "createTwilio"
    /\ ev.err = "maximum sessions reached"
    /\ Cardinality(sessions) = MaxSessions
    /\ nextId \in Ids

\* C5: RemoveSession returns nil; on an id that is not registered it changes
\* neither the registry nor any session; on a registered id the entry is gone
\* and the session closed when it returns; whoever else closes the session
\* (itself, the cleanup scan, Shutdown, another RemoveSession), the teardown
\* body runs at most once and closed never goes back to false.
C5_RemoveSessionIdempotent ==
    /\ [][ev'.op \in RemoveOps =>
            /\ ev'.err = "nil"
            /\ (ev'.id \notin sessions =>
                  /\ sessions' = sessions
                  /\ closed' = closed
                  /\ teardowns' = teardowns
                  /\ LastActivity' = LastActivity)
            /\ (ev'.id \in sessions =>
                  /\ sessions' = sessions \ {ev'.id}
                  /\ closed'[ev'.id])]_vars
    /\ [](\A id \in Ids : teardowns[id] <= 1)
    /\ [][\A id \in Ids : closed[id] => closed'[id]]_vars

\* C5 witness: RemoveSession has just removed a session whose own Close had
\* won the check-and-set and has not finished: the removal closed nothing.
C5_Witness ==
    /\ ev.op = "remove"
    /\ selfPc[ev.id] = "teardown"
    /\ teardowns[ev.id] = 0
    /\ closed[ev.id]
    /\ ev.id \notin sessions

\* The cleanup scan returns in this step.
CleanupReturns == mgr.op = "cleanup" /\ mgr'.op = "idle"

\* C6: when CleanupInactiveSessions returns, no registered session is older
\* than SessionTimeout at the scan's time; every session the scan removed is
\* closed; every session the scan found no older than the timeout is still
\* registered and the scan did not close it.
C6_CleanupRemovesExactlyExpired ==
    [][CleanupReturns =>
        /\ \A id \in sessions' : mgr.now - LastActivity'[id] <= SessionTimeout
        /\ \A id \in mgr.removed : closed'[id] /\ id \notin sessions'
        /\ \A e \in mgr.seen :
              IF mgr.now - e[2] <= SessionTimeout
              THEN e[1] \in sessions' /\ e[1] \notin mgr.closedBy
              ELSE e[1] \in mgr.removed]_vars

\* C6 witness: a scan is about to return having removed one session and kept
\* one whose age is exactly the timeout.
C6_Witness ==
    /\ mgr.op = "cleanup" /\ mgr.phase = "scan" /\ mgr.todo = {}
    /\ mgr.removed # {}
    /\ \E id \in sessions : mgr.now - LastActivity[id] = SessionTimeout

(***************************************************************************)
(* ClientSession: properties                                               *)
(***************************************************************************)

\* Close returns to g in this step without having won the check-and-set.
CloseReturnsLate(g) == pc[g] = "close" /\ cs.closed /\ pc'[g] # "close"

\* No caller of Close is inside the teardown body.
NoTeardownRunning == \A g \in Procs : pc[g] \notin TeardownPcs

\* C7: cs.closed goes from false to true and never back; whatever the number
\* of Close calls (read loop, AI error callback, Manager)
\* and however they interleave, each of the six teardown steps runs at most
\* once, and all six have run exactly once when the call that set the flag
\* has returned; every other call returns without changing the session, its
\* buffer or the teardown counts.
C7_CloseExactlyOnce ==
    /\ [][cs.closed => cs'.closed]_vars
    /\ [](\A i \in 1..Len(TeardownSteps) : obs.ran[i] <= 1)
    /\ []((cs.closed /\ NoTeardownRunning) =>
            \A i \in 1..Len(TeardownSteps) : obs.ran[i] = 1)
    /\ [][\A g \in Procs : CloseReturnsLate(g) =>
            /\ cs' = cs
            /\ chunks' = chunks /\ totalSize' = totalSize
            /\ obs'.ran = obs.ran
            /\ pc'[g] = AfterClose(g)]_vars

\* C7 witness: the read loop, the AI error callback and the Manager have
\* each called Close and returned, and the teardown ran once.
C7_Witness ==
    /\ pc["reader"] = "done" /\ pc["ai"] = "done" /\ pc["manager"] = "done"
    /\ loc.errIsClose
    /\ \A i \in 1..Len(TeardownSteps) : obs.ran[i] = 1
    /\ ~obs.panicked

\* The pump writes a message to the connection in this step.
PumpWrote == obs'.nWritten # obs.nWritten

\* C8: the messages on the wire are in enqueue order: each write puts out a
\* message enqueued after the one written before it (no reordering, no
\* duplicate), one at a time and only messages that were enqueued, whether
\* the outer select or the batch-drain pass took it from the queue.
C8_WireOrderIsEnqueueOrder ==
    [][PumpWrote =>
        /\ obs'.nWritten = obs.nWritten + 1
        /\ obs'.lastWritten.seq > obs.lastWritten.seq
        /\ obs'.lastWritten.seq <= obs.seq]_vars

\* C8 witness: the batch-drain pass has written the second message or a
\* later one while a producer has put another one in the queue.
C8_Witness ==
    /\ obs.lastVia = "drain"
    /\ obs.nWritten >= 2
    /\ Len(cs.writeChan) >= 1
    /\ ~cs.writeChanClosed

\* Producer g is at the select of queueMessage.
AtSend(g) == pc[g] \in QueueSendPcs

\* queueMessage returns to g from its select in this step.
SendReturns(g) == AtSend(g) /\ pc'[g] # pc[g]

\* C9: the queue never holds more than writeBufferSize messages; a producer
\* at the select of queueMessage can always take its step (it never waits
\* for room); and when it returns from a queue that holds writeBufferSize
\* messages, the queue is as it was and no message was enqueued.
C9_QueueNeverBlocks ==
    /\ [](Len(cs.writeChan) <= writeBufferSize)
    /\ [](\A g \in Procs : (AtSend(g) /\ ~obs.panicked) => ENABLED QueueSend(g))
    /\ [][\A g \in Procs :
            (SendReturns(g) /\ Len(cs.writeChan) >= writeBufferSize) =>
                /\ cs'.writeChan = cs.writeChan
                /\ obs'.seq = obs.seq
                /\ pc'[g] = AfterQueue(g)]_vars

\* C9 witness: a message was dropped and the queue is still full.
C9_Witness ==
    /\ obs.dropped
    /\ Len(cs.writeChan) = writeBufferSize
    /\ ~obs.panicked

\* The calls the AI service gets for one turn of audio.
TurnCalls(data) == <<[k |-> "audio", data |-> data], [k |-> "end", data |-> <<>>]>>

IsPrefix(a, b) == Len(a) <= Len(b) /\ a = SubSeq(b, 1, Len(a))

\* C10: the AI service gets nothing while the read loop handles anything
\* but an end_turn; what it gets for an end_turn is a prefix of: one audio
\* call carrying the concatenation, in arrival order, of the chunks accepted
\* since the last flush, then one end-of-turn; when handleEndTurn returns
\* with both sends done the service got exactly these two calls, and the
\* audio call is only made for at least one byte; an end_turn that finds no
\* byte buffered sends nothing.
C10_TurnTaking ==
    /\ [](obs.aiLog # <<>> => IsPrefix(obs.aiLog, TurnCalls(obs.turnData)))
    /\ [][obs'.aiLog # obs.aiLog =>
            \/ obs'.aiLog = <<>>
            \/ loc.frame.k = "end_turn" /\ pc["reader"] \in {"send_audio", "send_end"}]_vars
    /\ [][(pc["reader"] = "send_audio" /\ pc'["reader"] = "send_end") =>
            /\ obs.turnData # <<>>
            /\ obs'.aiLog = <<[k |-> "audio", data |-> obs.turnData]>>]_vars
    /\ [][(pc["reader"] = "send_end" /\ pc'["reader"] = "loop") =>
            obs'.aiLog = TurnCalls(obs.turnData)]_vars
    /\ [][(pc["reader"] \in {"process", "send_audio"} /\ pc'["reader"] = "loop") =>
            obs'.aiLog = <<>>]_vars
    /\ [][(pc["reader"] = "send_audio" /\ pc'["reader"] = "loop") =>
            obs.turnData = <<>>]_vars

\* C10 witness: two chunks, <<1>> then <<0>>, went to the AI service as one
\* audio call followed by the end-of-turn, and the read loop is back at its
\* select.
C10_Witness ==
    /\ obs.aiLog = TurnCalls(<<1, 0>>)
    /\ pc["reader"] = "loop"
    /\ ~cs.closed

(***************************************************************************)
(* The mu-law codec: properties                                            *)
(***************************************************************************)

\* The G.711 mu-law expansion in unbounded integers: with u = NOT b, the
\* magnitude (((u AND 0x0F) << 3) + 0x84) << ((u >> 4) AND 7), less 0x84,
\* negated when bit 7 of u is set.
RefDecode(b) ==
    LET u == 255 - b
        m == ((u % 16) * 8 + 132) * Pow2((u \div 16) % 8) - 132
    IN IF u >= 128 THEN -m ELSE m

\* C13: for every byte b, decodeMuLawByte(b) and muLawToPcmTable[b] are the
\* G.711 reference value of b, which fits in 16 bits; 0xFF decodes to 0, 0x00
\* to -32124, 0x80 to +32124.
C13_DecodeIsG711 ==
    codec.stage = "decoded" =>
        /\ codec.pcm = RefDecode(codec.b)
        /\ decodeMuLawByte(codec.b) = RefDecode(codec.b)
        /\ RefDecode(codec.b) \in Int16
        /\ codec.b = 255 => codec.pcm = 0
        /\ codec.b = 0 => codec.pcm = -32124
        /\ codec.b = 128 => codec.pcm = 32124

\* C13 witness: the byte 0x00, whose magnitude is the largest, was decoded.
C13_Witness ==
    codec.stage = "decoded" /\ codec.b = 0 /\ codec.pcm = -32124

\* C14 as stated: a second encoding of a decoded byte returns the byte.
C14_ByteRoundTripStable ==
    codec.stage = "round2" => codec.e2 = codec.e1

\* C14: once a sample has been encoded and decoded, a further encode/decode
\* round trip returns the same sample: decode(encode(decode(encode(x)))) =
\* decode(encode(x)). The byte is the same too, except that the byte 0x7F
\* (negative zero, which decodes to 0) comes back as 0xFF.
C14_ValueRoundTripStable ==
    codec.stage = "round2" =>
        /\ codec.d2 = codec.d1
        /\ codec.e2 # codec.e1 => (codec.e1 = 127 /\ codec.e2 = 255 /\ codec.d1 = 0)

\* C14 witness: -1 encodes to 0x7F, which decodes to 0, which encodes to
\* 0xFF, which decodes to 0.
C14_Witness ==
    /\ codec.stage = "round2"
    /\ codec.x = -1 /\ codec.e1 = 127 /\ codec.d1 = 0 /\ codec.e2 = 255 /\ codec.d2 = 0

\* The position, counted from bit 7, of the highest set bit of mag among bits
\* 14..7; 0 when none is set.
RECURSIVE RefExponent(_, _)
RefExponent(mag, e) ==
    IF e = 0 \/ (mag \div Pow2(e + 7)) % 2 = 1 THEN e ELSE RefExponent(mag, e - 1)

\* The reference mu-law encoder in unbounded integers.
RefEncode(x) ==
    LET sign == IF x < 0 THEN 128 ELSE 0
        abs == IF x < 0 THEN -x ELSE x
        mag == (IF abs > 32635 THEN 32635 ELSE abs) + 132
        e == RefExponent(mag, 7)
        mantissa == (mag \div Pow2(e + 3)) % 16
    IN 255 - (sign + 16 * e + mantissa)

\* C15 as stated: for every 16-bit sample x, PcmToMuLawByte(x) is the
\* reference encoding of x, and decoding it gives a sample with the sign of x.
C15_EncodeIsReference ==
    /\ codec.stage = "encoded" => codec.e1 = RefEncode(codec.x)
    /\ (codec.stage = "round" /\ codec.x < -3) => codec.d1 < 0

\* PcmToMuLawByte is the reference encoding of every sample but -32768.
C15_EncodeIsReferenceAboveMin ==
    (codec.stage = "encoded" /\ codec.x # -32768) => codec.e1 = RefEncode(codec.x)

\* -32768 was encoded: the code returns 0x7F where the reference gives 0x00.
C15_MinSampleEncoded ==
    /\ codec.stage = "round"
    /\ codec.x = -32768 /\ codec.e1 = 127 /\ codec.d1 = 0
    /\ RefEncode(-32768) = 0 /\ RefDecode(0) = -32124


(***************************************************************************)
(* The telephony session: properties                                       *)
(***************************************************************************)

\* The 16-bit little-endian bytes of the G.711 value of a mu-law byte.
RefSampleLo(b) == ((RefDecode(b) + 65536) % 65536) % 256
RefSampleHi(b) == ((RefDecode(b) + 65536) % 65536) \div 256

\* data holds, for every byte of muLaw in order, its sample twice.
IsUpsampled(data, muLaw) ==
    /\ Len(data) = 4 * Len(muLaw)
    /\ \A i \in 1..Len(muLaw) :
         /\ data[4 * i - 3] = RefSampleLo(muLaw[i])
         /\ data[4 * i - 2] = RefSampleHi(muLaw[i])
         /\ data[4 * i - 1] = RefSampleLo(muLaw[i])
         /\ data[4 * i] = RefSampleHi(muLaw[i])

\* C11: on a telephony session, once a media event with N mu-law bytes is
\* handled and before the next frame is read, SendAudio was called exactly
\* once, with 4N bytes that hold each byte's G.711 sample twice in 16-bit
\* little-endian; until it is handled and for every other event no call was
\* made; the AudioBuffer stays empty and no end of turn is ever sent.
C11_MediaForwardedOnce ==
    cs.IsTwilio =>
        /\ chunks = <<>> /\ totalSize = 0
        /\ \A i \in 1..Len(obs.aiLog) : obs.aiLog[i].k = "audio"
        /\ IF loc.frame.k = "media" /\ pc["reader"] # "tw_send"
           THEN /\ Len(obs.aiLog) = 1
                /\ IsUpsampled(obs.aiLog[1].data, loc.frame.chunk)
           ELSE obs.aiLog = <<>>

\* A two-byte media event was forwarded and the loop is about to read the
\* next frame.
C11_Witness ==
    /\ cs.IsTwilio
    /\ pc["reader"] = "read"
    /\ loc.frame.k = "media" /\ loc.frame.chunk = <<128, 255>>
    /\ Len(obs.aiLog) = 1 /\ obs.aiLog[1].ok
    /\ obs.aiLog[1].data = <<124, 125, 124, 125, 0, 0, 0, 0>>


\* No start carrying a non-empty streamSid has been accepted so far.
NotStarted == cs.IsTwilio /\ ~obs.started

\* C12: while no start with a streamSid has been accepted on a telephony
\* session, nothing has been enqueued or written and no goroutine has
\* panicked, and the handling of a media frame leaves the session as it is
\* and returns to the head of the read loop.
C12_MediaBeforeStart ==
    /\ [](NotStarted =>
            /\ obs.seq = 0 /\ cs.writeChan = <<>> /\ obs.nWritten = 0
            /\ ~obs.dropped /\ ~obs.panicked)
    /\ [][(NotStarted /\ pc["reader"] = "tw_send" /\ pc'["reader"] # "tw_send") =>
            (pc'["reader"] = "loop" /\ cs' = cs /\ ~obs'.panicked)]_vars

\* Before any start, a media frame was handled as the second event of the
\* call; all goroutines run, the session is open and the loop reads on.
C12_Witness ==
    /\ NotStarted
    /\ loc.frame.k = "media" /\ loc.frame.chunk = <<0>>
    /\ Len(obs.aiLog) = 1
    /\ obs.events = 2
    /\ pc["reader"] = "read" /\ pc["ai"] = "recv_top" /\ pc["writer"] = "select"
    /\ ~cs.closed

\* The outbound media frames that carry a non-empty streamSid.
SidFrames == {MediaFrame(sid) : sid \in StreamSids}

\* The messages that are in the queue, in the write pump's hand, or were
\* written last.
Outbound ==
    {cs.writeChan[i] : i \in 1..Len(cs.writeChan)} \cup
    ({loc.inhand, obs.lastWritten} \ {NoMsg})

\* C16: on a telephony session every outbound message is a media frame
\* with a non-empty streamSid; the streamSid OnAudioRaw reads is that of the
\* most recent accepted start, and the frame it enqueues carries the
\* streamSid it read; a start without start data or without streamSid
\* leaves cs.StreamSid unchanged.
C16_FramesCarryStreamSid ==
    /\ [](cs.IsTwilio => \A m \in Outbound : m.kind \in SidFrames)
    /\ [][(cs.IsTwilio /\ pc["ai"] = "recv" /\ pc'["ai"] = "cb_qm_check") =>
            /\ loc'.streamSid = obs.lastStart
            /\ loc'.streamSid \in StreamSids]_vars
    /\ [][(cs.IsTwilio /\ obs'.seq # obs.seq) =>
            /\ loc.streamSid \in StreamSids
            /\ cs'.writeChan = Append(cs.writeChan,
                    [seq |-> obs'.seq, kind |-> MediaFrame(loc.streamSid)])]_vars
    /\ [][(cs.IsTwilio /\ pc["reader"] = "read" /\ obs'.events # obs.events
              /\ loc'.frame.k = "start_bad") =>
            (cs'.StreamSid = cs.StreamSid /\ obs'.lastStart = obs.lastStart)]_vars

\* A frame for the first stream is in the queue although a second start
\* has replaced the stored streamSid since the callback read it.
C16_Witness ==
    /\ cs.IsTwilio
    /\ Len(cs.writeChan) = 1 /\ cs.writeChan[1].kind = "media:MZ1"
    /\ cs.StreamSid = "MZ2"
    /\ loc.streamSid = "MZ1"

\* A start without streamSid was just read while a streamSid is stored.
C16_WitnessBadStart ==
    /\ cs.IsTwilio
    /\ loc.frame.k = "start_bad" /\ pc["reader"] = "loop"
    /\ cs.StreamSid = "MZ1"

(***************************************************************************)
(* The browser read loop: properties                                       *)
(***************************************************************************)

\* The invalid frames of C17: bad JSON, an unknown type, an unknown control
\* action, and audio with an invalid payload or invalid base64.
InvalidKinds ==
    {"bad_json", "unknown_type", "control_unknown", "audio_bad", "audio_bad_base64"}

\* The read loop holds an INVALID_MESSAGE reply at pc p.
ReaderHolds(p) ==
    /\ ~cs.IsTwilio
    /\ pc["reader"] = p
    /\ loc.msg["reader"] = "error:INVALID_MESSAGE"

\* The INVALID_MESSAGE reply was put at the tail of the queue in this step.
ReplyEnqueued ==
    /\ obs'.seq = obs.seq + 1
    /\ cs'.writeChan = Append(cs.writeChan,
                              [seq |-> obs'.seq, kind |-> "error:INVALID_MESSAGE"])

\* C17 as stated: whenever the read loop has answered an invalid frame and
\* is back at the head of the loop, exactly one INVALID_MESSAGE envelope was
\* enqueued.
C17_InvalidFrameEnqueued ==
    [][((ReaderHolds("qm_check") \/ ReaderHolds("qm_send")) /\ pc'["reader"] = "loop")
         => ReplyEnqueued]_vars

\* C17: each invalid frame is answered with INVALID_MESSAGE and its
\* handling changes neither the session nor the AudioBuffer; queueMessage is
\* called once, and the envelope is dropped when the session is closed or
\* the queue is full, and enqueued exactly once otherwise; the loop then
\* continues, unless the queue was closed after queueMessage read the
\* closed flag, in which case the send does not return.
C17_InvalidFrameAnswered ==
    /\ [](\A k \in InvalidKinds : ReplyTo(k) = "error:INVALID_MESSAGE")
    /\ [][(~cs.IsTwilio /\ pc["reader"] = "read" /\ pc'["reader"] = "qm_check")
            => (cs' = cs /\ chunks' = chunks /\ totalSize' = totalSize)]_vars
    /\ [][(ReaderHolds("qm_check") /\ pc'["reader"] # "qm_check")
            => /\ pc'["reader"] = IF cs.closed THEN "loop" ELSE "qm_send"
               /\ cs' = cs /\ obs'.seq = obs.seq
               /\ chunks' = chunks /\ totalSize' = totalSize]_vars
    /\ [][(ReaderHolds("qm_send") /\ pc'["reader"] # "qm_send")
            => /\ pc'["reader"] = "loop"
               /\ ~cs.writeChanClosed
               /\ IF Len(cs.writeChan) < writeBufferSize
                  THEN ReplyEnqueued
                  ELSE cs' = cs /\ obs'.seq = obs.seq /\ obs'.dropped
               /\ cs'.closed = cs.closed
               /\ chunks' = chunks /\ totalSize' = totalSize]_vars
    /\ [][(ReaderHolds("qm_send") /\ cs.writeChanClosed)
            => pc'["reader"] = "qm_send"]_vars

\* The reply to an invalid frame is in the queue, the session is open and
\* the loop is about to read the next frame.
C17_Witness ==
    /\ ~cs.IsTwilio
    /\ pc["reader"] = "read"
    /\ \E i \in 1..Len(cs.writeChan) : cs.writeChan[i].kind = "error:INVALID_MESSAGE"
    /\ ~cs.closed
    /\ chunks = <<>>

(***************************************************************************)
(* The end of the read loop and of the write pump: properties              *)
(***************************************************************************)

\* The read loop has returned: its deferred Close is about to run, runs,
\* or has returned.
ReaderEnded == pc["reader"] \in {"close", "done"} \cup TeardownPcs

PumpDeadSessionOpen == pc["writer"] = "done" /\ ~cs.closed

\* C19: once a write has failed in the write pump of a running session,
\* the closed flag eventually becomes true by the session's own steps.
C19_WriteFailureClosesSession == PumpDeadSessionOpen ~> cs.closed

\* The pump is gone after a failed write, the session is open, and every
\* other goroutine waits: the read loop in ReadMessage, the receive
\* goroutine in Receive, the connection handler on CloseChan. Only a read
\* error, an error from the AI service or the Manager can close the session
\* now.
C19_SessionLeftOpen ==
    /\ PumpDeadSessionOpen
    /\ obs.nWritten = 0 /\ loc.inhand = NoMsg
    /\ obs.events = 0
    /\ pc["reader"] = "read" /\ pc["ai"] = "recv" /\ pc["handler"] = "wait"
    /\ pc["manager"] = "close"
    /\ ~ENABLED NextProgram

\* Close has set closed, cancelled the context and closed the queue.
CancellationFired == cs.closed /\ cs.cancelled /\ cs.writeChanClosed

\* The write pump takes a queued message in hand in this step; its WriteJSON
\* follows.
PumpStartsWrite == loc.inhand = NoMsg /\ loc'.inhand # NoMsg

\* C20: once cancellation has fired, the write pump starts no write of a
\* queued message.
C20_NoWriteAfterCancel == [][CancellationFired => ~PumpStartsWrite]_vars

\* Cancellation has fired while the pump is between writes, with nothing in
\* hand, and the closed queue still holds a message: CloseChan is not closed
\* yet, so the pump's select can only receive that message and write it on
\* the connection, which is still open.
C20_QueuedAfterCancel ==
    /\ CancellationFired
    /\ ~cs.CloseChanClosed /\ ~cs.connClosed
    /\ pc["writer"] = "select" /\ loc.inhand = NoMsg
    /\ Len(cs.writeChan) > 0

(***************************************************************************)
(* The AI service's errors: properties                                     *)
(***************************************************************************)

\* OnError(err) is running for a websocket close error that Receive
\* returned while the proxy was not closed.
InOnErrorClose == loc.errIsClose /\ pc["ai"] \in {"err_qm_check", "err_qm_send"}

ConfigRejected == UnknownTypeReply("config")

\* C22: an envelope of type "config" is never answered with the
\* INVALID_MESSAGE envelope for an unknown message type: the read loop never
\* hands that envelope to queueMessage and it is never in the queue.
C22_ConfigIsSupported ==
    /\ loc.msg["reader"] # ConfigRejected
    /\ \A i \in 1..Len(cs.writeChan) : cs.writeChan[i].kind # ConfigRejected

\* A config envelope was read on an open session and its INVALID_MESSAGE
\* reply is in the queue; the loop reads on.
C22_ConfigAnsweredInvalid ==
    /\ ~cs.IsTwilio /\ ~cs.closed
    /\ pc["reader"] = "read"
    /\ \E i \in 1..Len(cs.writeChan) : cs.writeChan[i].kind = ConfigRejected

(***************************************************************************)
(* Manager: Shutdown and the cleanup routine, properties                   *)
(***************************************************************************)

\* Shutdown returns in this step.
ShutdownReturns == mgr.op = "shutdown" /\ mgr'.op = "idle"

\* C23: Shutdown holds sm.mu from entry to return; the sessions it still
\* has to visit are the registered ones, each visit closes the session
\* (whether or not it is expired, and whether its Close won or found the
\* session closed by itself) and deletes it; when Shutdown returns the
\* registry is empty and every session registered at entry has its closed
\* flag set.
C23_ShutdownClosesAll ==
    /\ [][(mgr.op = "idle" /\ mgr'.op = "shutdown")
            => (mgr'.todo = sessions /\ mgr'.removed = {})]_vars
    /\ [][(mgr.op = "shutdown" /\ mgr'.op = "shutdown")
            => /\ mgr'.todo \cup mgr'.removed = mgr.todo \cup mgr.removed
               /\ sessions' = mgr'.todo]_vars
    /\ [][ShutdownReturns
            => /\ sessions' = {}
               /\ mgr.todo = {}
               /\ \A id \in mgr.removed : closed'[id]]_vars

\* Shutdown is about to return after it removed two sessions: one is not
\* expired and was closed by Shutdown, the other had set its closed flag
\* itself and is still in its own teardown.
C23_Witness ==
    /\ mgr.op = "shutdown" /\ mgr.phase = "scan" /\ mgr.todo = {}
    /\ sessions = {}
    /\ Cardinality(mgr.removed) = 2
    /\ \E id \in mgr.removed : selfPc[id] = "teardown" /\ teardowns[id] = 0
    /\ \E p \in mgr.seen : ~Expired(mgr.now, p[2]) /\ selfPc[p[1]] = "run"
                           /\ teardowns[p[1]] = 1

\* Session id is registered and its last activity is older than the idle
\* timeout.
IdleRegistered(id) ==
    id \in sessions /\ now - LastActivity[id] > SessionTimeout

\* C24: while the routine's context is not cancelled, a registered session
\* whose last activity stays older than the idle timeout is eventually
\* removed from the registry, and a session that was removed has its closed
\* flag set; once the context is cancelled the routine stops, and a stopped
\* routine starts no scan.
C24_IdleSessionEvicted ==
    /\ \A id \in Ids :
         IdleRegistered(id) ~>
            (id \notin sessions \/ ~IdleRegistered(id) \/ routine.cancelled)
    /\ [](\A id \in Ids : (id < nextId /\ id \notin sessions) => closed[id])
    /\ (routine.cancelled ~> routine.pc = "stopped")
    /\ [][routine.pc = "stopped" => routine'.pc = "stopped"]_vars

\* The routine's scan has just closed and removed an expired session that
\* nobody else had closed; the context is not cancelled.
C24_Witness ==
    /\ routine.pc = "scan" /\ ~routine.cancelled
    /\ mgr.op = "cleanup"
    /\ \E id \in mgr.removed :
         /\ closed[id] /\ teardowns[id] = 1 /\ selfPc[id] = "run"
         /\ id \notin sessions

(***************************************************************************)
(* queueMessage against Close: properties                                  *)
(***************************************************************************)

\* Goroutine g has read cs.closed = false in queueMessage and has not yet
\* executed its send.
BetweenCheckAndSend(g) == pc[g] \in QueueSendPcs

\* C25: no goroutine is between queueMessage's closed-check and its send
\* when the queue is closed, and no send on the closed queue panics.
C25_NoSendOnClosedQueue ==
    /\ ~obs.panicked
    /\ cs.writeChanClosed => \A g \in Procs : ~BetweenCheckAndSend(g)

\* The read loop read cs.closed = false, the Manager's Close then closed
\* the queue and has not yet closed CloseChan, and the read loop's send
\* panicked; no other goroutine was sending.
C25_SendOnClosedQueue ==
    /\ obs.panicked
    /\ BetweenCheckAndSend("reader")
    /\ \A g \in Procs \ {"reader"} : ~BetweenCheckAndSend(g)
    /\ cs.writeChanClosed /\ ~cs.CloseChanClosed
    /\ pc["manager"] = "td_CloseChan"

(***************************************************************************)
(* The session's lock: properties                                          *)
(***************************************************************************)

\* The Manager reads LastActivity of session id in this step.
ScanReadsLastActivity(id) ==
    /\ mgr.op = "cleanup" /\ mgr.phase = "scan"
    /\ \E p \in mgr'.seen \ mgr.seen : p[1] = id

\* C26: LastActivity is accessed under cs.mu only, so the cleanup scan does
\* not read it while the read loop holds cs.mu to write it.
C26_FieldsUnderLock ==
    [][\A id \in Ids : ScanReadsLastActivity(id) => SessionMuFree(id)]_vars

\* The read loop of a registered session holds cs.mu and is about to store
\* LastActivity while the cleanup scan, which holds sm.mu only, has that
\* session still to visit.
C26_ScanBesideWriter ==
    /\ mgr.op = "cleanup" /\ mgr.phase = "scan"
    /\ \E id \in mgr.todo : ~SessionMuFree(id) /\ id \in sessions

(***************************************************************************)
(* One read loop and one write pump: properties                            *)
(***************************************************************************)

\* Start or StartTwilio has returned: its last statement spawns the read loop.
SessionStarted == pc["reader"] # "off"

\* A goroutine is active from its go statement until it returns. Start runs
\* once for a session, so each of the two exists at most once.
ReadLoopActive == pc["reader"] \notin {"off", "done"}
WritePumpActive == pc["writer"] \notin {"off", "done"}

\* C27: while a started session's closed flag is false, its read loop and
\* its write pump are both active.
C27_OneLoopOnePump ==
    (SessionStarted /\ ~cs.closed) => (ReadLoopActive /\ WritePumpActive)

\* A started session whose pump returned on a failed write: the closed flag
\* is false, the read loop still reads frames, and nothing drains the queue.
C27_LoopWithoutPump ==
    /\ SessionStarted /\ ~cs.closed
    /\ ReadLoopActive /\ ~WritePumpActive
    /\ pc["reader"] = "read"
    /\ ~cs.connClosed /\ ~cs.writeChanClosed /\ ~cs.CloseChanClosed

(***************************************************************************)
(* The four locks: sm.mu, cs.mu, ab.mu and gp.mu                           *)
(***************************************************************************)

\* The Manager's calls that take sm.mu: RemoveSession (from the connection
\* handler), CleanupInactiveSessions and Shutdown.
ManagerOps == {"handler", "cleanup", "shutdown"}

\* Places at which a goroutine has called Lock on cs.mu, or on gp.mu, and
\* waits for it. A sync.RWMutex admits no new reader while a writer waits.
CsLockPcs == {"c_lock", "stamp_lock", "qm_stamp_lock"}
CsWriterWaits == \E p \in LockProcs : lk.pc[p] \in CsLockPcs
GpWriterWaits == \E p \in LockProcs : lk.pc[p] = "c_gp_lock"

CanLock(m) == m.w = "none" /\ m.r = {}
CanRLock(m, writerWaits) == m.w = "none" /\ ~writerWaits

\* Inside Close (part_001:271-304).
ClosePcs == {"c_lock", "c_check", "c_ab_lock", "c_ab", "c_gp_lock", "c_gp"}
InClose(p) == lk.pc[p] \in ClosePcs

\* Where Close returns to: the delete of the Manager's call, the deferred
\* OnError of the receive goroutine, the end of the read loop.
AfterCloseOf(p) ==
    CASE p \in ManagerOps -> "m_delete"
      [] p = "ai" -> "defer"
      [] OTHER -> "done"

\* Close's early return unlocks cs.mu (part_001:273-276).
UnlocksOnEarlyReturnNever == FALSE
UnlocksOnEarlyReturn == TRUE

\* cs.mu.Lock()
CloseLock(p) ==
    /\ lk.pc[p] = "c_lock"
    /\ CanLock(lk.cs)
    /\ lk' = [lk EXCEPT !.cs.w = p, !.pc[p] = "c_check"]

\* if cs.closed { Unlock; return }; cs.closed = true; Unlock; then, with no
\* lock held, cancel(); close(writeChan); close(CloseChan)
CloseCheck(p) ==
    /\ lk.pc[p] = "c_check"
    /\ IF lk.closed
       THEN lk' = [lk EXCEPT !.cs.w = IF UnlocksOnEarlyReturn THEN "none" ELSE @,
                             !.pc[p] = AfterCloseOf(p)]
       ELSE lk' = [lk EXCEPT !.closed = TRUE, !.cs.w = "none",
                             !.chanClosed = TRUE, !.pc[p] = "c_ab_lock"]

\* AudioBuffer.Clear: ab.mu.Lock()
CloseClearLock(p) ==
    /\ lk.pc[p] = "c_ab_lock"
    /\ lk.ab = FreeMutex
    /\ lk' = [lk EXCEPT !.ab = p, !.pc[p] = "c_ab"]

\* AudioBuffer.Clear: the body and the deferred Unlock
CloseClear(p) ==
    /\ lk.pc[p] = "c_ab"
    /\ lk' = [lk EXCEPT !.ab = FreeMutex, !.pc[p] = "c_gp_lock"]

\* Proxy.Close: gp.mu.Lock()
CloseProxyLock(p) ==
    /\ lk.pc[p] = "c_gp_lock"
    /\ CanLock(lk.gp)
    /\ lk' = [lk EXCEPT !.gp.w = p, !.pc[p] = "c_gp"]

\* Proxy.Close: closed = true; session.Close(); the deferred Unlock; then
\* ClientConn.Close() and Close returns
CloseProxy(p) ==
    /\ lk.pc[p] = "c_gp"
    /\ lk' = [lk EXCEPT !.gpClosed = TRUE, !.gp.w = "none", !.connClosed = TRUE,
                        !.pc[p] = AfterCloseOf(p)]

CloseStep(p) ==
    \/ CloseLock(p)
    \/ CloseCheck(p)
    \/ CloseClearLock(p)
    \/ CloseClear(p)
    \/ CloseProxyLock(p)
    \/ CloseProxy(p)

\* ---- queueMessage (part_001:247-262), called by the read loop and by
\* the AI callbacks

\* cs.mu.RLock()
QmRLock(p) ==
    /\ lk.pc[p] = "qm_rlock"
    /\ CanRLock(lk.cs, CsWriterWaits)
    /\ lk' = [lk EXCEPT !.cs.r = @ \cup {p}, !.pc[p] = "qm_check"]

\* closed := cs.closed; RUnlock; if closed { return }
QmCheck(p) ==
    /\ lk.pc[p] = "qm_check"
    /\ lk' = [lk EXCEPT !.cs.r = @ \ {p},
                        !.pc[p] = IF lk.closed THEN lk.after[p] ELSE "qm_send"]

\* The select: a send on the closed queue panics; a full queue takes the
\* default branch; after a send LastActivity is stamped under the lock.
QmSend(p, sent) ==
    /\ lk.pc[p] = "qm_send"
    /\ IF lk.chanClosed
       THEN lk' = [lk EXCEPT !.panicked = TRUE]
       ELSE lk' = [lk EXCEPT !.pc[p] = IF sent THEN "qm_stamp_lock" ELSE lk.after[p]]

\* cs.mu.Lock()
QmStampLock(p) ==
    /\ lk.pc[p] = "qm_stamp_lock"
    /\ CanLock(lk.cs)
    /\ lk' = [lk EXCEPT !.cs.w = p, !.pc[p] = "qm_stamp"]

\* cs.LastActivity = time.Now(); cs.mu.Unlock()
QmStamp(p) ==
    /\ lk.pc[p] = "qm_stamp"
    /\ lk' = [lk EXCEPT !.cs.w = "none", !.pc[p] = lk.after[p]]

QmStep(p) ==
    \/ QmRLock(p)
    \/ QmCheck(p)
    \/ \E sent \in BOOLEAN : QmSend(p, sent)
    \/ QmStampLock(p)
    \/ QmStamp(p)

\* ---- the read loop (part_001:418-453)

\* ReadMessage returns a frame (the client's doing).
LockReaderFrame ==
    /\ lk.pc["reader"] = "read"
    /\ ~lk.connClosed
    /\ lk.frames < MaxLockEvents
    /\ lk' = [lk EXCEPT !.frames = @ + 1, !.pc["reader"] = "stamp_lock"]

\* ReadMessage returns an error; the loop returns into its deferred Close.
\* On an open connection that is the client's doing; on a closed one
\* ReadMessage fails at once.
LockReaderError(gone) ==
    /\ lk.pc["reader"] = "read"
    /\ lk.connClosed = gone
    /\ lk' = [lk EXCEPT !.pc["reader"] = "c_lock"]

\* cs.mu.Lock()
ReaderStampLock ==
    /\ lk.pc["reader"] = "stamp_lock"
    /\ CanLock(lk.cs)
    /\ lk' = [lk EXCEPT !.cs.w = "reader", !.pc["reader"] = "stamp"]

\* cs.LastActivity = time.Now(); cs.mu.Unlock()
ReaderStamp ==
    /\ lk.pc["reader"] = "stamp"
    /\ lk' = [lk EXCEPT !.cs.w = "none", !.pc["reader"] = "append_lock"]

\* AudioBuffer.Append: ab.mu.Lock()
ReaderAppendLock ==
    /\ lk.pc["reader"] = "append_lock"
    /\ lk.ab = FreeMutex
    /\ lk' = [lk EXCEPT !.ab = "reader", !.pc["reader"] = "append"]

\* AudioBuffer.Append: the body and the deferred Unlock; a full buffer is
\* answered with queueMessage.
ReaderAppendDone(full) ==
    /\ lk.pc["reader"] = "append"
    /\ lk' = [lk EXCEPT !.ab = FreeMutex,
                        !.after["reader"] = "read",
                        !.pc["reader"] = IF full THEN "qm_rlock" ELSE "read"]

\* ---- the AI proxy's receive goroutine (proxy.go:91-127) and the
\* callbacks it runs (part_001:187-199)

\* gp.mu.RLock() at the top of the loop
AiTopRLock ==
    /\ lk.pc["ai"] = "recv_top"
    /\ CanRLock(lk.gp, GpWriterWaits)
    /\ lk' = [lk EXCEPT !.gp.r = @ \cup {"ai"}, !.pc["ai"] = "recv_chk"]

\* if gp.closed { RUnlock; return }; RUnlock
AiTopCheck ==
    /\ lk.pc["ai"] = "recv_chk"
    /\ lk' = [lk EXCEPT !.gp.r = @ \ {"ai"},
                        !.pc["ai"] = IF lk.gpClosed THEN "defer" ELSE "recv"]

\* Receive returns content; the callback queues it for the client.
LockAiContent ==
    /\ lk.pc["ai"] = "recv"
    /\ ~lk.gpClosed
    /\ lk.contents < MaxLockEvents
    /\ lk' = [lk EXCEPT !.contents = @ + 1,
                        !.after["ai"] = "recv_top", !.pc["ai"] = "qm_rlock"]

\* Receive returns an error: the service's doing on an open AI session, at
\* once on a closed one.
LockAiError(gone, isClose) ==
    /\ lk.pc["ai"] = "recv"
    /\ lk.gpClosed = gone
    /\ lk' = [lk EXCEPT !.errIsClose = isClose, !.pc["ai"] = "err_rlock"]

\* gp.mu.RLock()
AiErrRLock ==
    /\ lk.pc["ai"] = "err_rlock"
    /\ CanRLock(lk.gp, GpWriterWaits)
    /\ lk' = [lk EXCEPT !.gp.r = @ \cup {"ai"}, !.pc["ai"] = "err_chk"]

\* closed := gp.closed; RUnlock; if !closed { OnError(err) }; return.
\* OnError queues the error for the client and calls Close for a close error.
AiErrCheck ==
    /\ lk.pc["ai"] = "err_chk"
    /\ IF lk.gpClosed
       THEN lk' = [lk EXCEPT !.gp.r = @ \ {"ai"}, !.pc["ai"] = "defer"]
       ELSE lk' = [lk EXCEPT !.gp.r = @ \ {"ai"},
                             !.after["ai"] = IF lk.errIsClose THEN "c_lock" ELSE "defer",
                             !.pc["ai"] = "qm_rlock"]

\* The deferred OnError("gemini receiver closed"): queueMessage, no Close.
AiDefer ==
    /\ lk.pc["ai"] = "defer"
    /\ lk' = [lk EXCEPT !.after["ai"] = "done", !.pc["ai"] = "qm_rlock"]

\* ---- the write pump (part_001:202-244): it takes no lock and returns
\* once the queue or CloseChan is closed
LockPumpExit ==
    /\ lk.pc["writer"] = "select"
    /\ lk.chanClosed
    /\ lk' = [lk EXCEPT !.pc["writer"] = "done"]

\* ---- the Manager's calls (manager.go:131-205) and the handler
\* (part_005:94-102)

\* <-clientSession.CloseChan has returned; RemoveSession is called.
HandlerWake ==
    /\ lk.pc["handler"] = "wait"
    /\ lk.chanClosed
    /\ lk' = [lk EXCEPT !.pc["handler"] = "m_lock"]

\* The ticker fires in StartCleanupRoutine; main calls Shutdown.
ManagerCalled(p) ==
    /\ p \in {"cleanup", "shutdown"}
    /\ lk.pc[p] = "idle"
    /\ p = "cleanup" => lk.ticks < MaxLockEvents
    /\ lk' = [lk EXCEPT !.ticks = IF p = "cleanup" THEN @ + 1 ELSE @,
                        !.pc[p] = "m_lock"]

\* sm.mu.Lock()
ManagerLock(p) ==
    /\ lk.pc[p] = "m_lock"
    /\ lk.sm = FreeMutex
    /\ lk' = [lk EXCEPT !.sm = p, !.pc[p] = "m_in"]

\* Where a Manager call is when it has returned.
ReturnedPc(p) == IF p = "cleanup" THEN "idle" ELSE "done"

\* The lookup or the scan: session.Close() for a registered session (that
\* the scan found expired); otherwise the deferred Unlock and return.
ManagerEnter(p, hit) ==
    /\ lk.pc[p] = "m_in"
    /\ p # "cleanup" => hit
    /\ IF lk.registered /\ hit
       THEN lk' = [lk EXCEPT !.pc[p] = "c_lock"]
       ELSE lk' = [lk EXCEPT !.sm = FreeMutex, !.pc[p] = ReturnedPc(p)]

\* delete(sm.sessions, id), or the new empty map; the deferred Unlock.
ManagerDelete(p) ==
    /\ lk.pc[p] = "m_delete"
    /\ lk' = [lk EXCEPT !.registered = FALSE, !.sm = FreeMutex,
                        !.pc[p] = ReturnedPc(p)]

\* The steps goroutine p takes by itself, once it is where it is.
LockStep(p) ==
    /\ ~lk.panicked
    /\ \/ p # "writer" /\ CloseStep(p)
       \/ p \in {"reader", "ai"} /\ QmStep(p)
       \/ p = "reader" /\ \/ ReaderStampLock
                          \/ ReaderStamp
                          \/ ReaderAppendLock
                          \/ \E full \in BOOLEAN : ReaderAppendDone(full)
                          \/ LockReaderError(TRUE)
       \/ p = "ai" /\ \/ AiTopRLock
                      \/ AiTopCheck
                      \/ AiErrRLock
                      \/ AiErrCheck
                      \/ AiDefer
                      \/ \E isClose \in BOOLEAN : LockAiError(TRUE, isClose)
       \/ p = "writer" /\ LockPumpExit
       \/ p = "handler" /\ HandlerWake
       \/ p \in ManagerOps /\ ManagerLock(p)
       \/ p \in ManagerOps /\ \E hit \in BOOLEAN : ManagerEnter(p, hit)
       \/ p \in ManagerOps /\ ManagerDelete(p)

\* What the client, the AI service, the ticker and the operator do.
LockEnvironment ==
    /\ ~lk.panicked
    /\ \/ LockReaderFrame
       \/ LockReaderError(FALSE)
       \/ LockAiContent
       \/ \E isClose \in BOOLEAN : LockAiError(FALSE, isClose)
       \/ \E p \in {"cleanup", "shutdown"} : ManagerCalled(p)

LockOthers == UNCHANGED <<bufVars, mgrVars, sessVars, codec, routine, gp, act>>

InitLocks ==
    /\ CodecIdle
    /\ RoutineOff
    /\ LocksIdle
    /\ ProxyIdle
    /\ ActIdle
    /\ SessInit
    /\ BufInit
    /\ BufIdle
    /\ MgrInit

LockProgram == \E p \in LockProcs : LockStep(p) /\ LockOthers

NextLocks ==
    \/ LockProgram
    \/ LockEnvironment /\ LockOthers

\* The Go scheduler runs a goroutine that can take a step. The inputs are
\* bounded, so a run is finite and ends where no goroutine can step: a
\* goroutine still inside a call there waits for a lock for ever.
SpecLocks ==
    /\ InitLocks
    /\ [][NextLocks]_vars
    /\ WF_vars(LockProgram)

(***************************************************************************)
(* The four locks: properties                                              *)
(***************************************************************************)

\* A Manager call is under way in goroutine p.
InManagerCall(p) == lk.pc[p] \in ({"m_lock", "m_in", "m_delete"} \cup ClosePcs)

\* No Manager call is under way and no goroutine of the session is inside
\* Close.
NoCallUnderWay ==
    /\ \A p \in ManagerOps : ~InManagerCall(p)
    /\ \A p \in {"reader", "ai"} : ~InClose(p)

\* C28: whatever the goroutines do, the state in which no RemoveSession,
\* CleanupInactiveSessions or Shutdown and no Close of the read loop or of
\* an AI callback is under way comes back again and again, so each such
\* call that was begun returns, unless a send on the closed queue has ended
\* the process by a panic first; and sm.mu is never awaited by a goroutine
\* that holds one of the other three locks.
C28_NoLockDeadlock ==
    /\ []<>(NoCallUnderWay \/ lk.panicked)
    /\ [](\A p \in LockProcs :
            lk.pc[p] = "m_lock" => (lk.cs.w # p /\ p \notin lk.cs.r /\ lk.ab # p
                                      /\ lk.gp.w # p /\ p \notin lk.gp.r))

\* The cleanup scan holds sm.mu and, inside Close, gp.mu; the handler has
\* been woken by the closed CloseChan and waits for sm.mu in RemoveSession;
\* the read loop, its read failed, waits for cs.mu in its own Close behind a
\* callback of the receive goroutine that reads the closed flag.
C28_Witness ==
    /\ lk.sm = "cleanup" /\ lk.gp.w = "cleanup"
    /\ lk.pc["handler"] = "m_lock"
    /\ lk.pc["reader"] = "c_lock"
    /\ lk.cs.r = {"ai"}
    /\ ~lk.panicked

(***************************************************************************)
(* Telephony media before start: properties                                *)
(***************************************************************************)

\* C29: the handling of a media frame that arrives before any start makes
\* no call to the AI service, and the read loop goes on to the next frame.
C29_EarlyMediaDropped ==
    [][(NotStarted /\ pc["reader"] = "tw_send" /\ pc'["reader"] # "tw_send") =>
         (obs'.aiLog = obs.aiLog /\ pc'["reader"] = "loop")]_vars

\* No start has been accepted, and the media frame just handled was decoded,
\* upsampled and sent to the AI service, which took it; the loop reads on.
C29_EarlyMediaForwarded ==
    /\ NotStarted /\ cs.StreamSid = ""
    /\ loc.frame.k = "media" /\ loc.frame.chunk = <<128, 255>>
    /\ obs.aiLog = <<[k |-> "audio", data |-> muLawToPCMUpsample(<<128, 255>>),
                      ok |-> TRUE]>>
    /\ pc["reader"] \in {"loop", "read"}
    /\ ~cs.closed /\ ~obs.panicked

(***************************************************************************)
(* Browser audio that is rejected: properties                              *)
(***************************************************************************)

\* The read loop calls AudioBuffer.Append in this step and Append returns
\* its buffer-full error.
AppendRejects ==
    /\ pc["reader"] = "process"
    /\ loc.frame.k \in {"binary", "audio", "audio_binary"}
    /\ BufferFull(NewSize(totalSize, loc.frame.chunk))
    /\ pc'["reader"] # "process"

\* The read loop reads a malformed audio_binary envelope in this step.
ReadsMalformedBinary ==
    /\ pc["reader"] = "read"
    /\ obs'.events = obs.events + 1
    /\ loc'.frame.k = "audio_binary_bad"

\* The read loop goes on to queue the reply m for the client.
Reports(m) == pc'["reader"] = "qm_check" /\ loc'.msg["reader"] = m

\* C30: a chunk the AudioBuffer rejects as too large is answered with a
\* BUFFER_FULL error in each of its three encodings, and a malformed
\* audio_binary envelope is answered with an error as well (its branches
\* write no log line, so a reply is the only diagnostic there could be).
C30_RejectedAudioReported ==
    [][/\ AppendRejects => Reports("error:BUFFER_FULL")
       /\ ReadsMalformedBinary => Reports("error:INVALID_MESSAGE")]_vars

\* Append has rejected the chunk of an audio_binary envelope as too large,
\* and the read loop is back at the head of its loop with no reply to queue
\* and nothing queued or written since the frame was read; the buffer holds
\* what it held before.
C30_BinaryEnvelopeFullUnreported ==
    /\ obs.lastAppend = [k |-> "audio_binary", full |-> TRUE]
    /\ pc["reader"] = "loop"
    /\ loc.msg["reader"] = "none"
    /\ totalSize > 0 /\ totalSize <= maxSize
    /\ ~cs.closed

\* A malformed audio_binary envelope has been read, and the read loop is
\* back at the head of its loop with no reply to queue.
C30_MalformedBinaryUnreported ==
    /\ loc.frame.k = "audio_binary_bad"
    /\ pc["reader"] = "loop"
    /\ loc.msg["reader"] = "none"
    /\ obs.lastAppend = NoAppend
    /\ ~cs.closed

(***************************************************************************)
(* Unwinding after Close                                                   *)
(***************************************************************************)

\* ClientConn.Close() has run: a ReadMessage on the connection, pending or
\* new, returns an error (part_001:299-301, 424-428).
ConnGoneNever == FALSE
ConnGone == cs.connClosed

\* GeminiProxy.Close() has closed the AI session: Receive returns an error
\* (proxy.go:298-311, 109-110).
StreamGone == cs.proxyClosed

\* The reads that fail by the session's own doing, not by the client's or
\* the AI service's.
Unwind ==
    \/ ConnGone /\ ReaderReadError
    \/ StreamGone /\ ~cs.IsTwilio /\ \E isClose \in BOOLEAN : AiReceiveError(isClose)
    \/ StreamGone /\ cs.IsTwilio /\ \E isClose \in BOOLEAN : TwilioReceiveError(isClose)

NextUnwind ==
    \/ NextProgram
    \/ /\ ~obs.panicked
       /\ Unwind
       /\ UNCHANGED <<abMu, pcB, argB, newSizeB, logB, flushed, mgrVars, codec, routine, lk, gp, act>>

\* The session of SpecLive, where in addition a read on a connection that
\* Close has closed fails without anybody's help.
SpecUnwind == InitLive /\ [][NextLive]_vars /\ WF_vars(NextUnwind)

(***************************************************************************)
(* Unwinding after Close: properties                                       *)
(***************************************************************************)

\* The read loop, the write pump and the receive goroutine have returned.
WorkersEnded == \A g \in {"reader", "writer", "ai"} : pc[g] = "done"

\* C31: once the closed flag is set, by whichever caller of Close, the read
\* loop, the write pump and the receive goroutine all return eventually,
\* unless a panic ends the process (and them) first.
C31_WorkersUnwind == cs.closed ~> (WorkersEnded \/ obs.panicked)

\* The Manager closed a started session whose read loop waited in
\* ReadMessage; the teardown ran once and all three workers have returned.
C31_Witness ==
    /\ cs.closed /\ WorkersEnded /\ ~obs.panicked
    /\ pc["manager"] = "done" /\ pc["handler"] = "wait"
    /\ \A i \in 1..Len(TeardownSteps) : obs.ran[i] = 1
    /\ obs.events = 0
    /\ cs.connClosed /\ cs.proxyClosed /\ cs.CloseChanClosed

(***************************************************************************)
(* Closed sessions leave the registry                                      *)
(***************************************************************************)

\* A Close that won its check-and-set runs its teardown body on; the
\* connection handler, woken by the closed CloseChan, calls RemoveSession.
SelfUnwind == \E id \in Ids : SelfTeardown(id)
HandlerRemoves == \E id \in Ids : RemoveSessionEnter(id, TRUE)

\* The Manager with its cleanup routine, as in SpecCleanup, where moreover
\* every goroutine of a session and its connection handler keep running:
\* the handler gets sm.mu though the routine takes it again and again.
SpecRemoval ==
    /\ InitCleanup
    /\ [][NextCleanup]_vars
    /\ WF_vars(RoutineTick /\ UNCHANGED <<bufVars, sessVars, codec, lk, gp, act>>)
    /\ SF_vars(RoutineLock /\ UNCHANGED <<bufVars, sessVars, codec, lk, gp, act>>)
    /\ WF_vars(ScanStep /\ UNCHANGED <<bufVars, sessVars, codec, routine, lk, gp, act>>)
    /\ WF_vars(RoutineReturn /\ UNCHANGED <<bufVars, sessVars, codec, lk, gp, act>>)
    /\ WF_vars(RemoveSessionFinish /\ UNCHANGED <<bufVars, sessVars, codec, routine, lk, gp, act>>)
    /\ SF_vars(RoutineStop /\ UNCHANGED <<bufVars, sessVars, codec, lk, gp, act>>)
    /\ WF_vars(SelfUnwind /\ UNCHANGED <<bufVars, sessVars, codec, routine, lk, gp, act>>)
    /\ SF_vars(HandlerRemoves /\ UNCHANGED <<bufVars, sessVars, codec, routine, lk, gp, act>>)

(***************************************************************************)
(* Closed sessions leave the registry: properties                          *)
(***************************************************************************)

\* Session id was started by its connection handler and its closed flag is
\* set.
StartedAndClosed(id) == hPc[id] \in {"waiting", "done"} /\ closed[id]

\* C32: a session that was started by a connection handler and whose closed
\* flag is set, by its own goroutines or by the Manager, is eventually
\* absent from the registry; and once its handler has returned it is absent.
C32_ClosedSessionRemoved ==
    /\ \A id \in Ids : StartedAndClosed(id) ~> (id \notin sessions)
    /\ [](\A id \in Ids : hPc[id] = "done" => id \notin sessions)

\* A session closed itself, its teardown closed CloseChan, and its handler
\* has removed it by RemoveSession, whose Close lost the check-and-set; the
\* cleanup routine is running and took no part.
C32_Witness ==
    /\ ev = [op |-> "remove", id |-> 1, err |-> "nil"]
    /\ hPc[1] = "done" /\ selfPc[1] = "exited"
    /\ closed[1] /\ teardowns[1] = 1
    /\ 1 \notin sessions
    /\ ~routine.cancelled /\ routine.pc = "select"

(***************************************************************************)
(* What the AI callbacks put on the outbound queue: properties             *)
(***************************************************************************)

\* The outbound media frames of a call.
MediaFrames == {MediaFrame(sid) : sid \in StreamSids \cup {""}}

\* The GEMINI_ERROR envelopes of OnError(err) and of the deferred OnError.
GeminiErrors == {"error:GEMINI_ERROR", "error:GEMINI_ERROR:receiver closed"}

\* The receive goroutine is inside the queueMessage of an error callback.
ErrorQueuePcs == {"err_qm_check", "err_qm_send", "defer_qm_check", "defer_qm_send"}
InErrorQueue == pc["ai"] \in ErrorQueuePcs

\* The queueMessage of an error callback returns in this step.
ErrorQueueReturns ==
    \/ pc["ai"] \in {"err_qm_check", "err_qm_send"}
         /\ pc'["ai"] \notin {"err_qm_check", "err_qm_send"}
    \/ pc["ai"] \in {"defer_qm_check", "defer_qm_send"}
         /\ pc'["ai"] \notin {"defer_qm_check", "defer_qm_send"}

\* A GEMINI_ERROR envelope was put at the tail of the queue in this step.
ErrorEnqueued ==
    /\ obs'.seq = obs.seq + 1
    /\ Len(cs'.writeChan) = Len(cs.writeChan) + 1
    /\ cs'.writeChan[Len(cs'.writeChan)].kind \in GeminiErrors

\* C33 as stated: on a telephony session only media frames are ever
\* enqueued and no error callback enters queueMessage, and on a browser
\* session each error callback enqueues a GEMINI_ERROR envelope.
C33_ErrorAlwaysEnqueued ==
    /\ [](cs.IsTwilio => \A m \in Outbound : m.kind \in MediaFrames)
    /\ [](cs.IsTwilio => ~InErrorQueue)
    /\ [][(~cs.IsTwilio /\ ErrorQueueReturns) => ErrorEnqueued]_vars

\* C33: on a telephony session only media frames are ever enqueued, each by
\* the audio callback, and text, turn-complete, tool calls and error
\* callbacks never enter queueMessage; on a browser session each error
\* callback hands a GEMINI_ERROR envelope to queueMessage, which enqueues it
\* when the session is not closed and the queue has room and drops it
\* otherwise.
C33_OutboundByMode ==
    /\ [](cs.IsTwilio => \A m \in Outbound : m.kind \in MediaFrames)
    /\ [](cs.IsTwilio => ~InErrorQueue)
    /\ [][(cs.IsTwilio /\ obs'.seq # obs.seq) =>
            (pc["ai"] = "cb_qm_send" /\ loc.msg["ai"] \in MediaFrames)]_vars
    /\ [][(cs.IsTwilio /\ pc["ai"] = "recv" /\ pc'["ai"] = "cb_qm_check") =>
            loc'.msg["ai"] \in MediaFrames]_vars
    /\ [](~cs.IsTwilio /\ InErrorQueue => MsgFor("ai") \in GeminiErrors)
    /\ [][(~cs.IsTwilio /\ pc["ai"] = "recv" /\ pc'["ai"] # "recv"
             /\ pc'["ai"] \notin {"cb_qm_check", "cb_qm_send"}) => InErrorQueue']_vars
    /\ [][(~cs.IsTwilio /\ ErrorQueueReturns) =>
            IF pc["ai"] \in QueueSendPcs /\ HasRoom(cs.writeChan)
            THEN ErrorEnqueued
            ELSE cs'.writeChan = cs.writeChan /\ obs'.seq = obs.seq]_vars

\* A browser session got a receive error that is no close error: the
\* envelope of OnError(err) is in the queue or on the wire, the session is
\* open, and the deferred OnError is about to queue its own.
C33_Witness ==
    /\ ~cs.IsTwilio /\ ~cs.closed
    /\ pc["ai"] = "defer_qm_check"
    /\ \E m \in Outbound : m.kind = "error:GEMINI_ERROR"

\* The deferred OnError of a closed browser session has returned from
\* queueMessage and nothing was enqueued for it.
C33_ErrorDroppedWhenClosed ==
    /\ ~cs.IsTwilio /\ cs.closed
    /\ pc["ai"] = "done"
    /\ \A m \in Outbound : m.kind \notin GeminiErrors
    /\ ~obs.dropped /\ ~obs.panicked


(***************************************************************************)
(* One receive failure, one report: properties                             *)
(***************************************************************************)

\* The GEMINI_ERROR envelopes that are queued, in the pump's hand or
\* written last.
ErrorEnvelopes == {m \in Outbound : m.kind \in GeminiErrors}

\* C34 as stated: one receive failure of a running browser session gives
\* one error callback and one GEMINI_ERROR envelope: the receive goroutine
\* does not go from OnError(err) into the deferred OnError's queueMessage,
\* and the outbound side never holds two GEMINI_ERROR envelopes (the
\* goroutine sees one failure at most, since it returns on it).
C34_OneReportPerFailure ==
    /\ [](~cs.IsTwilio => Cardinality(ErrorEnvelopes) <= 1)
    /\ [][(~cs.IsTwilio /\ pc["ai"] \in {"err_qm_check", "err_qm_send"}) =>
            pc'["ai"] \notin {"defer_qm_check", "defer_qm_send"}]_vars

\* The receive goroutine of an open browser session has ended after one
\* failure of Receive, and both the envelope of OnError(err) and that of the
\* deferred OnError("gemini receiver closed") are on the outbound side.
C34_FailureReportedTwice ==
    /\ ~cs.IsTwilio /\ ~cs.closed /\ ~cs.proxyClosed
    /\ pc["ai"] = "done"
    /\ ~obs.panicked /\ ~obs.dropped
    /\ \E m \in ErrorEnvelopes : m.kind = "error:GEMINI_ERROR"
    /\ \E m \in ErrorEnvelopes : m.kind = "error:GEMINI_ERROR:receiver closed"


(***************************************************************************)
(* Telephony downsampling of the AI's audio (part_001:147-168)             *)
(***************************************************************************)

\* The decoded PCM handed to the loop: up to MaxPcmLen bytes, each 0x00,
\* 0x80 or 0xFF, which gives the samples 0, 128, 255, -32768, -32640,
\* -32513, -256, -128 and -1.
MaxPcmLen == 8
PcmBytes == {0, 128, 255}

RECURSIVE SeqsUpTo(_, _)
SeqsUpTo(S, n) ==
    IF n = 0 THEN {<<>>}
    ELSE LET shorter == SeqsUpTo(S, n - 1)
         IN shorter \cup {Append(s, b) : s \in {t \in shorter : Len(t) = n - 1}, b \in S}

\* binary.LittleEndian.Uint16(b): b[0] | b[1]<<8
Uint16BigEndian(b0, b1) == b1 + 256 * b0
Uint16LittleEndian(b0, b1) == b0 + 256 * b1

\* for i := 0; i < sampleCount; i += 3 { offset := i * 2; if offset+1 >=
\* len(pcmData) { break }; sample := int16(LittleEndian.Uint16(
\* pcmData[offset:offset+2])); muLawData = append(muLawData,
\* PcmToMuLawByte(sample)) }
RECURSIVE DownsampleFrom(_, _)
DownsampleFrom(pcmData, i) ==
    LET sampleCount == Len(pcmData) \div 2
        offset == i * 2
    IN IF ~(i < sampleCount) THEN <<>>
       ELSE IF offset + 1 >= Len(pcmData) THEN <<>>
       ELSE <<PcmToMuLawByte(ToInt16(Uint16LittleEndian(pcmData[offset + 1],
                                                        pcmData[offset + 2])))>>
               \o DownsampleFrom(pcmData, i + 3)

\* The audio callback is handed the decoded PCM of one AI audio chunk.
DownsampleInit ==
    codec \in [stage : {"pcm"}, pcmData : SeqsUpTo(PcmBytes, MaxPcmLen)]

\* The loop of OnAudioRaw runs and leaves muLawData.
Downsample ==
    /\ codec.stage = "pcm"
    /\ codec' = [stage |-> "mulaw", pcmData |-> codec.pcmData,
                 muLawData |-> DownsampleFrom(codec.pcmData, 0)]

InitDownsample ==
    /\ DownsampleInit
    /\ RoutineOff
    /\ LocksIdle
    /\ ProxyIdle
    /\ ActIdle
    /\ SessInit
    /\ BufInit
    /\ BufIdle
    /\ MgrInit

NextDownsample == Downsample /\ UNCHANGED <<bufVars, mgrVars, sessVars, routine, lk, gp, act>>

SpecDownsample == InitDownsample /\ [][NextDownsample]_vars

\* Sample j (from 0) of a little-endian 16-bit PCM byte sequence.
SampleAt(data, j) ==
    LET u == data[2 * j + 1] + 256 * data[2 * j + 2]
    IN IF u >= 32768 THEN u - 65536 ELSE u

\* C35: for AI audio of S complete 16-bit little-endian samples (a trailing
\* odd byte is ignored) the telephony payload holds exactly ceil(S/3) mu-law
\* bytes, and byte k is the encoding of sample 3k.
C35_EveryThirdSample ==
    codec.stage = "mulaw" =>
        LET S == Len(codec.pcmData) \div 2
            n == IF S % 3 = 0 THEN S \div 3 ELSE S \div 3 + 1
        IN /\ Len(codec.muLawData) = n
           /\ \A k \in 0..(n - 1) :
                codec.muLawData[k + 1] = PcmToMuLawByte(SampleAt(codec.pcmData, 3 * k))

\* Four samples and no odd byte: two mu-law bytes, for samples 0 and 3,
\* which differ, while samples 1 and 2 are different from both.
C35_Witness ==
    /\ codec.stage = "mulaw"
    /\ codec.pcmData = <<0, 128, 255, 255, 128, 0, 255, 0>>
    /\ codec.muLawData = <<PcmToMuLawByte(-32768), PcmToMuLawByte(255)>>
    /\ PcmToMuLawByte(-32768) # PcmToMuLawByte(255)


(***************************************************************************)
(* The Proxy's sends against Setup and Close (proxy.go:51-88, 167-311)     *)
(***************************************************************************)

\* How many sends one caller makes.
MaxSendCalls == 2

\* The sends of the Proxy that carry audio: SendAudio is one
\* sendRealtimeInput, SendAudioBatch is sendRealtimeInput and then
\* sendTurnComplete.
SendOps == {"audio", "batch"}

\* Setup: gp.mu.Lock()
SetupLock ==
    /\ gp.setupPc = "idle"
    /\ gp.mu = "free"
    /\ gp' = [gp EXCEPT !.mu = "setup", !.setupPc = "locked"]

\* Setup under the lock: an error for a closed proxy; otherwise
\* client.Live.Connect, and gp.session = session when it succeeds; the
\* deferred Unlock.
SetupBody(ok) ==
    /\ gp.setupPc = "locked"
    /\ gp' = [gp EXCEPT !.session = IF ~gp.closed /\ ok THEN "live" ELSE @,
                        !.mu = "free", !.setupPc = "done"]

\* Close: gp.mu.Lock()
ProxyCloseLock ==
    /\ gp.closePc = "idle"
    /\ gp.mu = "free"
    /\ gp' = [gp EXCEPT !.mu = "close", !.closePc = "locked"]

\* Close under the lock: gp.closed = true, session.Close() when there is a
\* session; the deferred Unlock, and Close returns.
ProxyCloseBody ==
    /\ gp.closePc = "locked"
    /\ gp' = [gp EXCEPT !.closed = TRUE,
                        !.sessionClosed = (gp.session # "nil"),
                        !.mu = "free", !.closePc = "returned"]

\* A caller enters SendAudio or SendAudioBatch. SendAudioBatch returns nil
\* at once for empty data.
SendCall(op, empty) ==
    /\ gp.sender.pc = "idle"
    /\ gp.calls < MaxSendCalls
    /\ gp' = [gp EXCEPT !.calls = @ + 1,
                        !.sender = [pc |-> IF op = "batch" /\ empty THEN "idle" ELSE "audio_check",
                                    op |-> op, empty |-> empty,
                                    afterClose |-> (gp.closePc = "returned"),
                                    reached |-> <<>>, audioErr |-> FALSE,
                                    ret |-> IF op = "batch" /\ empty THEN "nil" ELSE "none"]]

\* if closed || session == nil { return error }
NotConnectedNilOnly(isClosed, session) == session = "nil"
NotConnected(isClosed, session) == isClosed \/ session = "nil"

\* sendRealtimeInput and sendTurnComplete: session and closed are read
\* under RLock, which waits while Setup or Close holds the lock.
SendCheck ==
    /\ gp.sender.pc \in {"audio_check", "end_check"}
    /\ gp.mu = "free"
    /\ gp' = [gp EXCEPT !.sender =
                IF NotConnected(gp.closed, gp.session)
                THEN [@ EXCEPT !.pc = "idle", !.ret = "err",
                               !.audioErr = (gp.sender.pc = "audio_check")]
                ELSE [@ EXCEPT !.pc = IF gp.sender.pc = "audio_check"
                                      THEN "audio_send" ELSE "end_send"]]

\* session.SendRealtimeInput, outside the lock: the audio, or
\* AudioStreamEnd. A failed audio send returns the error; a sent batch goes
\* on to sendTurnComplete.
SendDo(ok) ==
    /\ gp.sender.pc \in {"audio_send", "end_send"}
    /\ gp' = [gp EXCEPT !.sender =
                IF gp.sender.pc = "audio_send"
                THEN [@ EXCEPT !.reached = Append(@, "audio"),
                               !.audioErr = ~ok,
                               !.pc = IF ok /\ gp.sender.op = "batch" THEN "end_check" ELSE "idle",
                               !.ret = IF ~ok THEN "err"
                                       ELSE IF gp.sender.op = "batch" THEN "none" ELSE "nil"]
                ELSE [@ EXCEPT !.reached = Append(@, "end"),
                               !.pc = "idle",
                               !.ret = IF ok THEN "nil" ELSE "err"]]

ProxyStep ==
    \/ SetupLock
    \/ \E ok \in BOOLEAN : SetupBody(ok)
    \/ ProxyCloseLock
    \/ ProxyCloseBody
    \/ \E op \in SendOps, empty \in BOOLEAN : SendCall(op, empty)
    \/ SendCheck
    \/ \E ok \in BOOLEAN : SendDo(ok)

InitProxy ==
    /\ ProxyIdle
    /\ ActIdle
    /\ CodecIdle
    /\ RoutineOff
    /\ LocksIdle
    /\ SessInit
    /\ BufInit
    /\ BufIdle
    /\ MgrInit

NextProxy == ProxyStep /\ UNCHANGED <<bufVars, mgrVars, sessVars, codec, routine, lk, act>>

SpecProxy == InitProxy /\ [][NextProxy]_vars

\* The send under way, or the last one, is a SendAudioBatch of no data.
EmptyBatch == gp.sender.op = "batch" /\ gp.sender.empty

\* The send under way, or the last one, has returned.
SendReturned == gp.sender.op # "none" /\ gp.sender.pc = "idle"

\* C36: SendAudioBatch sends the audio first and the end of turn second; a
\* failed audio send is not followed by an end of turn; an empty batch
\* sends neither and returns no error; and a send made after Close has
\* returned, or while Setup has not been called, fails without reaching the
\* AI session.
C36_BatchOrderAndClosedSends ==
    /\ gp.sender.reached \in {<<>>, <<"audio">>, <<"audio", "end">>}
    /\ gp.sender.op = "audio" => gp.sender.reached # <<"audio", "end">>
    /\ (SendReturned /\ gp.sender.ret = "nil" /\ ~EmptyBatch) =>
          gp.sender.reached = (IF gp.sender.op = "batch" THEN <<"audio", "end">> ELSE <<"audio">>)
    /\ gp.sender.audioErr =>
          /\ SendReturned /\ gp.sender.ret = "err"
          /\ gp.sender.reached \in {<<>>, <<"audio">>}
    /\ EmptyBatch => SendReturned /\ gp.sender.ret = "nil" /\ gp.sender.reached = <<>>
    /\ (gp.sender.op # "none" /\ ~EmptyBatch /\ (gp.sender.afterClose \/ gp.setupPc = "idle")) =>
          /\ gp.sender.reached = <<>>
          /\ gp.sender.pc \in {"idle", "audio_check"}
          /\ SendReturned => gp.sender.ret = "err"

\* A batch was sent whole on a live session, then Close returned, and the
\* next batch, made after it, has failed without reaching the session.
C36_Witness ==
    /\ gp.calls = 2
    /\ gp.session = "live" /\ gp.closed /\ gp.closePc = "returned"
    /\ gp.sender.op = "batch" /\ ~gp.sender.empty /\ gp.sender.afterClose
    /\ SendReturned /\ gp.sender.ret = "err" /\ gp.sender.reached = <<>>


(***************************************************************************)
(* cs.LastActivity and its writers (part_001:247-262, 322-326, 429-432)    *)
(***************************************************************************)

\* How many frames and AI messages arrive.
MaxStampEvents == 3

StampLockPcs == {"stamp_lock", "qm_stamp_lock"}
StampStorePcs == {"stamp_store", "qm_stamp_store"}

\* time.Now() moves on.
ActTick ==
    /\ act.now < MaxTime
    /\ act' = [act EXCEPT !.now = @ + 1]

\* ClientConn.ReadMessage returns a frame to the read loop (either mode).
ActReadFrame ==
    /\ act.pc["reader"] = "top"
    /\ act.events < MaxStampEvents
    /\ act' = [act EXCEPT !.pc["reader"] = "stamp_lock", !.events = @ + 1]

\* cs.mu.Lock() before the store.
ActStampLock(g) ==
    /\ act.pc[g] \in StampLockPcs
    /\ act.mu = "free"
    /\ act' = [act EXCEPT !.mu = g,
                          !.pc[g] = IF act.pc[g] = "stamp_lock"
                                    THEN "stamp_store" ELSE "qm_stamp_store"]

\* cs.LastActivity = time.Now(); cs.mu.Unlock(). The read loop goes on to
\* handle the frame, queueMessage returns.
ActStampStore(g) ==
    /\ act.pc[g] \in StampStorePcs
    /\ act.mu = g
    /\ act' = [act EXCEPT !.LastActivity = act.now, !.mu = "free",
                          !.pc[g] = IF act.pc[g] = "stamp_store" THEN "handle" ELSE "top"]

\* The read loop handles the frame: it answers with a message for the
\* client (a status or an error) or it does not.
ActHandle(answers) ==
    /\ act.pc["reader"] = "handle"
    /\ act' = [act EXCEPT !.pc["reader"] = IF answers THEN "qm_check" ELSE "top",
                          !.out["reader"] = IF answers THEN "none" ELSE @]

\* session.Receive returns a message and its callback calls queueMessage.
ActReceive ==
    /\ act.pc["ai"] = "top"
    /\ act.events < MaxStampEvents
    /\ act' = [act EXCEPT !.pc["ai"] = "qm_check", !.out["ai"] = "none",
                          !.events = @ + 1]

\* queueMessage: closed := cs.closed under RLock; return when closed.
ActQueueCheck(g) ==
    /\ act.pc[g] = "qm_check"
    /\ act.mu = "free"
    /\ act' = IF act.closed
              THEN [act EXCEPT !.pc[g] = "top", !.out[g] = "dropped"]
              ELSE [act EXCEPT !.pc[g] = "qm_send"]

\* Where queueMessage goes from the select's default case: it returns.
AfterDropStamps(g) == "qm_stamp_lock"
AfterDrop(g) == "top"

\* select { case cs.writeChan <- msg: ...; default: }. A send on the closed
\* channel panics.
ActQueueSend(g) ==
    /\ act.pc[g] = "qm_send"
    /\ act' = IF act.chanClosed
              THEN [act EXCEPT !.panicked = TRUE]
              ELSE IF act.queued < writeBufferSize
              THEN [act EXCEPT !.queued = @ + 1, !.out[g] = "sent",
                               !.pc[g] = "qm_stamp_lock"]
              ELSE [act EXCEPT !.out[g] = "dropped", !.pc[g] = AfterDrop(g)]

\* The write pump takes a message off the queue.
ActWrite ==
    /\ act.queued > 0
    /\ act' = [act EXCEPT !.queued = @ - 1]

\* Close: the check-and-set of cs.closed under cs.mu.
ActCloseSet ==
    /\ ~act.closed
    /\ act.mu = "free"
    /\ act' = [act EXCEPT !.closed = TRUE]

\* Close: close(cs.writeChan).
ActCloseChan ==
    /\ act.closed /\ ~act.chanClosed
    /\ act' = [act EXCEPT !.chanClosed = TRUE]

ActStep ==
    \/ ActTick
    \/ ActReadFrame
    \/ \E g \in Stampers : ActStampLock(g)
    \/ \E g \in Stampers : ActStampStore(g)
    \/ \E answers \in BOOLEAN : ActHandle(answers)
    \/ ActReceive
    \/ \E g \in Stampers : ActQueueCheck(g)
    \/ \E g \in Stampers : ActQueueSend(g)
    \/ ActWrite
    \/ ActCloseSet
    \/ ActCloseChan

InitActivity ==
    /\ ActIdle
    /\ ProxyIdle
    /\ CodecIdle
    /\ RoutineOff
    /\ LocksIdle
    /\ SessInit
    /\ BufInit
    /\ BufIdle
    /\ MgrInit

NextActivity ==
    /\ ~act.panicked
    /\ ActStep
    /\ UNCHANGED <<bufVars, mgrVars, sessVars, codec, routine, lk, gp>>

SpecActivity == InitActivity /\ [][NextActivity]_vars

\* Goroutine g leaves pc p in this step.
ActLeaves(g, p) == act.pc[g] = p /\ act'.pc[g] # p

\* C37: LastActivity is set to the current time under the session lock
\* after every frame read and after every message enqueued; a message
\* dropped for a closed session or a full queue leaves it unchanged; and it
\* never decreases.
C37_ActivityStamped ==
    /\ [][act'.LastActivity >= act.LastActivity]_vars
    /\ [][act'.LastActivity # act.LastActivity =>
            \E g \in Stampers : /\ act.mu = g /\ act.pc[g] \in StampStorePcs
                                /\ act'.LastActivity = act.now]_vars
    /\ [][ActLeaves("reader", "top") => act'.pc["reader"] = "stamp_lock"]_vars
    /\ [][act'.queued = act.queued + 1 =>
            \E g \in Stampers : act'.pc[g] = "qm_stamp_lock" /\ act'.out[g] = "sent"]_vars
    /\ [][\A g \in Stampers :
            /\ ActLeaves(g, "stamp_lock") => act'.pc[g] = "stamp_store" /\ act'.mu = g
            /\ ActLeaves(g, "qm_stamp_lock") => act'.pc[g] = "qm_stamp_store" /\ act'.mu = g
            /\ (ActLeaves(g, "stamp_store") \/ ActLeaves(g, "qm_stamp_store")) =>
                  act'.LastActivity = act.now /\ act'.now = act.now]_vars
    /\ [][\A g \in Stampers :
            (act'.out[g] = "dropped" /\ act.out[g] # "dropped") =>
                act'.LastActivity = act.LastActivity /\ act'.pc[g] = "top"]_vars
    /\ [](\A g \in Stampers :
            act.pc[g] \in {"qm_stamp_lock", "qm_stamp_store"} => act.out[g] = "sent")

\* The read loop's answer was enqueued and stamped at the latest time, and
\* the AI callback's message was dropped on the full queue of the open
\* session after the clock had moved on since the session was made.
C37_Witness ==
    /\ act.out["reader"] = "sent" /\ act.out["ai"] = "dropped"
    /\ act.pc["reader"] = "top" /\ act.pc["ai"] = "top"
    /\ ~act.closed /\ act.queued = writeBufferSize
    /\ act.now = MaxTime /\ act.LastActivity = act.now /\ act.LastActivity > 0


(***************************************************************************)
(* The AudioBuffer after Close: properties                                 *)
(***************************************************************************)

\* The Manager's call of Close, which ran the teardown body, has returned.
ManagerCloseReturned == pc["manager"] = "done" /\ obs.ran[6] = 1

\* C38 as stated: once Close has returned for a browser session the
\* AudioBuffer is empty and stays empty, and no audio goes to the AI
\* service afterwards.
C38_EmptyAfterClose ==
    /\ [](ManagerCloseReturned => chunks = <<>> /\ totalSize = 0)
    /\ [][ManagerCloseReturned => Len(obs'.aiLog) <= Len(obs.aiLog)]_vars

\* Close has returned and cleared the buffer once; the read loop, which had
\* read an audio frame before the teardown, has appended it since and is
\* back at the head of its loop.
C38_AppendedAfterClear ==
    /\ ManagerCloseReturned
    /\ obs.ran[4] = 1
    /\ cs.closed /\ cs.connClosed /\ cs.proxyClosed
    /\ pc["reader"] = "loop"
    /\ obs.lastAppend # NoAppend /\ ~obs.lastAppend.full
    /\ chunks # <<>> /\ totalSize > 0
    /\ ~obs.panicked


(***************************************************************************)
(* IsEmpty and Size: properties                                            *)
(***************************************************************************)

\* C39 as stated: in every state of the AudioBuffer IsEmpty() is true
\* exactly when Size() is 0 (len(chunks) is 0 if and only if totalSize is).
C39_EmptyIffSizeZero == IsEmpty <=> (Size = 0)

\* An Append of a chunk of no bytes has returned nil: the buffer holds one
\* chunk and no byte, no call is under way and the lock is free, so
\* IsEmpty() answers false and Size() answers 0.
C39_EmptyChunkHeld ==
    /\ abMu = NoOwner
    /\ \A p \in Producers : pcB[p] = "idle"
    /\ chunks = << <<>> >>
    /\ ChunkCount = 1 /\ ~IsEmpty /\ Size = 0
    /\ Len(logB) = 1 /\ logB[1].err = "nil"


(***************************************************************************)
(* The first message of a browser session: properties                      *)
(***************************************************************************)

\* C40 as stated: on a browser session the first message placed on the
\* outbound queue is the "connected" status of Start; no envelope of an AI
\* callback is enqueued before it.
C40_ConnectedFirst ==
    ~cs.IsTwilio => \A m \in Outbound : m.seq = 1 => m.kind = "status:connected"

\* Start has spawned the receive goroutine and is still on its way into
\* queueMessage with the "connected" status, and the first message of the
\* open session's queue is the envelope of an AI callback.
C40_CallbackBeforeConnected ==
    /\ ~cs.IsTwilio /\ ~cs.closed
    /\ pc["handler"] \in {"qm_check", "qm_send"}
    /\ loc.msg["handler"] = "status:connected"
    /\ Len(cs.writeChan) >= 1
    /\ cs.writeChan[1].seq = 1
    /\ cs.writeChan[1].kind \in AiContent \cup GeminiErrors
    /\ ~obs.panicked

====
